---- MODULE Spec2Model ----
(***************************************************************************)
(* A model of the catan-spectator core: the Game object (models.py), its   *)
(* Board's piece map, the phase state machine and the UndoManager command  *)
(* stack (undo.py).                                                        *)
(*                                                                         *)
(* Methods are operators from a Game value to a Game value; an exception   *)
(* is the field `raised`, which makes every later step of the same call a  *)
(* no-op.  One action of the next-state relation is one public call.       *)
(*                                                                         *)
(* The modules commands.py and states.py are not part of the sources; the  *)
(* commands' apply steps and the states' capability queries are modelled   *)
(* from the specification (sections 4.3 and 4.4).                          *)
(***************************************************************************)
EXTENDS Integers, Sequences, FiniteSets, TLC

VARIABLES
    players,              \* Game.players
    state,                \* Game.state (class of the GameState object)
    dev_card_state,       \* Game.dev_card_state
    cur_player,           \* Game._cur_player
    last_roll,            \* Game.last_roll
    last_player_to_roll,  \* Game.last_player_to_roll
    cur_turn,             \* Game._cur_turn
    robber_tile,          \* Game.robber_tile
    pregame,              \* Game.options['pregame']
    board_state,          \* Game.board.state (class of the BoardState object)
    pieces,               \* Game.board.pieces
    tiles,                \* Game.board.tiles
    ports,                \* Game.board.ports
    catanlog,             \* Game.catanlog: the lines of the record
    timestamp,            \* the record's timestamp, taken at construction
    command_stack,        \* Game.undo_manager.command_stack
    raised,               \* the last call ended with an exception
    notified,             \* the last call ran Game.notify_observers
    board_notified,       \* the last call ran Board.notify_observers
    last_op,              \* history: the last public call and its argument
    pre,                  \* history: the game as it was before the last command call
    placed,               \* history: pregame placements made in turn since start
    observers,            \* Game.observers and Game.board.observers
    fanout,               \* history: the last notification pass made on its own
    trace                 \* history: the public calls made so far, when kept

vars == <<players, state, dev_card_state, cur_player, last_roll,
          last_player_to_roll, cur_turn, robber_tile, pregame, board_state,
          pieces, tiles, ports, catanlog, timestamp, command_stack, raised,
          notified, board_notified, last_op, pre, placed, observers, fanout,
          trace>>

----------------------------------------------------------------------------
(* Bounds of the model *)

MaxStack == 2
MaxTurn == 1
MaxPregameStack == 9
MaxRecord == 5
MaxTrace == 4

(* Values standing for Python's None *)
NoRoll == 0
NoTile == 0
NoPlayer == [seat |-> 0, name |-> "None", color |-> "None"]

(* models.py: the number of tiles; the first id that is not a tile's *)
NUM_TILES == 19
BadTile == NUM_TILES + 1

(* The board the model plays on: two tiles, two nodes, one edge; tile 1     *)
(* touches both nodes, tile 2 touches node 2 only (hexgrid, reduced).       *)
Tiles == {1, 2}
BoardTiles == 2
Directions == {"NW", "E"}
Nodes == {1, 2}
CityNodes == {1}
Edges == {1}
RollValues == {2, 7, 12}
MonopolyResources == { "wood", "ore" }

nodes_touching_tile(tile) ==
    CASE tile = 1 -> {1, 2}
      [] tile = 2 -> {2}

----------------------------------------------------------------------------
(* Players *)

Player(seat, name, color) == [seat |-> seat, name |-> name, color |-> color]

(* str.lower().replace(' ', '') on the names and colors given to the       *)
(* constructor                                                             *)
lower_replace(str) ==
    CASE str = "Yurick" -> "yurick"
      [] str = "Dark Green" -> "darkgreen"
      [] str = "josh" -> "josh"
      [] str = "blue" -> "blue"

(* mutant: any seat is taken *)
Player__init__any_seat(seat, name, color) ==
    [raised |-> FALSE,
     player |-> Player(seat, lower_replace(name), lower_replace(color))]

(* Player.__init__: the object made, or the exception *)
Player__init__(seat, name, color) ==
    IF ~ (1 <= seat /\ seat <= 4)
    THEN [raised |-> TRUE, player |-> NoPlayer]
    ELSE [raised |-> FALSE,
          player |-> Player(seat, lower_replace(name), lower_replace(color))]

Player__eq__(self, other) ==
    IF other = NoPlayer THEN FALSE
    ELSE /\ self.color = other.color
         /\ self.name = other.name
         /\ self.seat = other.seat

get_debug_players ==
    << Player(1, "yurick", "green"), Player(2, "josh", "blue"),
       Player(3, "zach", "orange"), Player(4, "ross", "red") >>

Roster3 == SubSeq(get_debug_players, 1, 3)

Rosters == { Roster3, get_debug_players }

Victims == { Roster3[1], Roster3[2] }

Nobody == Player(1, "nobody", "nobody")

----------------------------------------------------------------------------
(* Pieces and the board's piece map *)

Piece(type, owner) == [type |-> type, owner |-> owner]

NoPieces == [k \in {} |-> Piece("None", NoPlayer)]

(* mutant: every piece is kept in the node class *)
_piece_type_to_hex_type_node(piece_type) == "NODE"

_piece_type_to_hex_type(piece_type) ==
    CASE piece_type = "road" -> "EDGE"
      [] piece_type \in {"settlement", "city"} -> "NODE"
      [] piece_type = "robber" -> "TILE"
      [] OTHER -> "None"

place_piece(pcs, piece, coord) ==
    (<<_piece_type_to_hex_type(piece.type), coord>> :> piece) @@ pcs

(* dict.pop raises KeyError, which `except ValueError` does not catch *)
remove_piece(pcs, piece, coord) ==
    LET index == <<_piece_type_to_hex_type(piece.type), coord>> IN
    IF index \in DOMAIN pcs
    THEN [pieces |-> [k \in (DOMAIN pcs) \ {index} |-> pcs[k]], raised |-> FALSE]
    ELSE [pieces |-> pcs, raised |-> TRUE]

(* mutant: the piece is placed and removed whether or not it was there *)
move_piece_unchecked(pcs, piece, from_coord, to_coord) ==
    remove_piece(place_piece(pcs, piece, to_coord), piece, from_coord)

move_piece(pcs, piece, from_coord, to_coord) ==
    LET from_index == <<_piece_type_to_hex_type(piece.type), from_coord>> IN
    IF from_index \notin DOMAIN pcs
    THEN [pieces |-> pcs, raised |-> FALSE]
    ELSE remove_piece(place_piece(pcs, piece, to_coord), piece, from_coord)

get_pieces(pcs, types, coord) ==
    LET indexes == { <<_piece_type_to_hex_type(t), coord>> : t \in types } IN
    { pcs[idx] : idx \in indexes \cap DOMAIN pcs }

----------------------------------------------------------------------------
(* Tiles, ports and their enums (models.py); an Enum lists its members in   *)
(* the order of declaration                                                *)

Terrain == << "wood", "brick", "wheat", "sheep", "ore", "desert" >>

HexNumber == << "none", "two", "three", "four", "five", "six", "eight",
                "nine", "ten", "eleven", "twelve" >>

PortType == << "any4", "any3", "wood", "brick", "wheat", "sheep", "ore", "none" >>

(* str(member.value), as the record writes it *)
HexNumber_value(number) ==
    CASE number = "none" -> "None"
      [] number = "two" -> "2"
      [] number = "three" -> "3"
      [] number = "four" -> "4"
      [] number = "five" -> "5"
      [] number = "six" -> "6"
      [] number = "eight" -> "8"
      [] number = "nine" -> "9"
      [] number = "ten" -> "10"
      [] number = "eleven" -> "11"
      [] number = "twelve" -> "12"

PortType_value(type) ==
    CASE type = "any4" -> "4:1"
      [] type = "any3" -> "3:1"
      [] OTHER -> type

(* list.index *)
Index(list, x) == CHOOSE i \in 1..Len(list) : list[i] = x

Tile(tile_id, terrain, number) ==
    [tile_id |-> tile_id, terrain |-> terrain, number |-> number]

Port(tile_id, direction, type) ==
    [tile_id |-> tile_id, direction |-> direction, type |-> type]

(* mutant: the next member of the enum, any4 included *)
PortType_next_ui_plain(ptype) ==
    PortType[(Index(PortType, ptype) % Len(PortType)) + 1]

RECURSIVE PortType_next_ui(_)
PortType_next_ui(ptype) ==
    LET next_idx == (Index(PortType, ptype) % Len(PortType)) + 1
        next_port_type == PortType[next_idx]
    IN IF next_port_type = "any4"
       THEN PortType_next_ui(next_port_type)
       ELSE next_port_type

(* Board.get_port_at: the place of the port in the list, and the list with  *)
(* a new `none` port at its end when there was none at the anchor           *)
(* mutant: a port is made at every query *)
get_port_at_always_new(prts, tile_id, direction) ==
    [ports |-> Append(prts, Port(tile_id, direction, "none")),
     idx |-> Len(prts) + 1]

get_port_at(prts, tile_id, direction) ==
    LET at == { i \in 1..Len(prts) :
                  prts[i].tile_id = tile_id /\ prts[i].direction = direction }
    IN IF at # {}
       THEN [ports |-> prts, idx |-> CHOOSE i \in at : \A j \in at : i <= j]
       ELSE [ports |-> Append(prts, Port(tile_id, direction, "none")),
             idx |-> Len(prts) + 1]

----------------------------------------------------------------------------
(* The record (recording.py): a sequence of lines; a line keeps the fixed   *)
(* text it starts with and the values formatted into it                    *)

GameRecord_version == "0.0.1"

Line(kind, a, b, n, vals) ==
    [kind |-> kind, a |-> a, b |-> b, n |-> n, vals |-> vals]

recordln(log, content) == Append(log, content)

Map(f(_), list) == [i \in 1..Len(list) |-> f(list[i])]

RECURSIVE InsertBySeat(_, _)
InsertBySeat(sorted, p) ==
    IF sorted = <<>> THEN << p >>
    ELSE IF sorted[Len(sorted)].seat <= p.seat THEN Append(sorted, p)
    ELSE Append(InsertBySeat(SubSeq(sorted, 1, Len(sorted) - 1), p),
                sorted[Len(sorted)])

(* list.sort(key=lambda p: p.seat): stable *)
RECURSIVE SortBySeat(_)
SortBySeat(ps) ==
    IF ps = <<>> THEN <<>>
    ELSE InsertBySeat(SortBySeat(SubSeq(ps, 1, Len(ps) - 1)), ps[Len(ps)])

RECURSIVE RecordPlayers(_, _)
RecordPlayers(log, ps) ==
    IF ps = <<>> THEN log
    ELSE RecordPlayers(
             recordln(log, Line("name: , color: , seat: ",
                                ps[1].name, ps[1].color, ps[1].seat, <<>>)),
             Tail(ps))

(* mutant: the list that was handed in is sorted itself *)
_set_players_in_place(log, ps) ==
    [log |-> RecordPlayers(recordln(log, Line("players: ", "", "", Len(ps), <<>>)),
                           SortBySeat(ps)),
     players |-> SortBySeat(ps)]

(* mutant: the roster is written in the order it was given *)
_set_players_unsorted(log, ps) ==
    [log |-> RecordPlayers(recordln(log, Line("players: ", "", "", Len(ps), <<>>)),
                           ps),
     players |-> ps]

(* the lines written, and the caller's list as the call leaves it *)
_set_players(log, ps) ==
    [log |-> RecordPlayers(recordln(log, Line("players: ", "", "", Len(ps), <<>>)),
                           SortBySeat(ps)),
     players |-> ps]

TerrainOf(t) == t.terrain
NumberOf(t) == t.number
PortOf(p) == PortType_value(p.type)

_set_board_terrain(log, terrain) ==
    recordln(log, Line("terrain: ", "", "", 0, terrain))

_set_board_numbers(log, numbers) ==
    recordln(log, Line("numbers: ", "", "", 0, Map(HexNumber_value, numbers)))

_set_board_ports(log, prts) ==
    recordln(log, Line("ports: ", "", "", 0, Map(PortOf, prts)))

record_pregame(log, ts, ps, terrain, numbers, prts) ==
    LET l1 == recordln(log, Line("CatanGameRecord v", GameRecord_version, "", 0, <<>>))
        l2 == recordln(l1, Line("timestamp: ", "", "", ts, <<>>))
        r3 == _set_players(l2, ps)
        l4 == _set_board_terrain(r3.log, terrain)
        l5 == _set_board_numbers(l4, numbers)
        l6 == _set_board_ports(l5, prts)
    IN [log |-> recordln(l6, Line("...CATAN!", "", "", 0, <<>>)),
        players |-> r3.players]

record_player_roll(log, player, roll) ==
    recordln(log, Line(" rolls ", player.color, "", roll, <<>>))

record_player_moves_robber_and_steals(log, player, tile_id, victim) ==
    recordln(log, Line(" moves robber to , steals from ",
                       player.color, victim.color, tile_id, <<>>))

record_player_buys_settlement(log, player, node_id) ==
    recordln(log, Line(" buys settlement, builds at ", player.color, "", node_id, <<>>))

record_player_buys_city(log, player, node_id) ==
    recordln(log, Line(" buys city, builds at ", player.color, "", node_id, <<>>))

record_player_buys_dev_card(log, player) ==
    recordln(log, Line(" buys dev card", player.color, "", 0, <<>>))

record_player_buys_road(log, player, edge) ==
    recordln(log, Line(" buys road, builds from  to ", player.color, "", edge, <<>>))

record_player_plays_dev_knight(log, player, tile_id, victim) ==
    recordln(log, Line(" plays dev card: knight on , steals from ",
                       player.color, victim.color, tile_id, <<>>))

(* one line: "$color trades [..] to player:$color for [..]" *)
record_player_trades_with_other(log, player, to_other, other, to_player) ==
    recordln(log, Line(" trades [] to player: for []", player.color, other.color, 0,
                       <<to_other, to_player>>))

record_player_plays_dev_monopoly(log, player, resource) ==
    recordln(log, Line(" plays dev card: monopoly on ", player.color, resource, 0, <<>>))

record_player_plays_dev_victory_point(log, player) ==
    recordln(log, Line(" plays dev card: victory point", player.color, "", 0, <<>>))

record_player_ends_turn(log, player) ==
    recordln(log, Line(" ends turn", player.color, "", 0, <<>>))

record_player_wins(log, player) ==
    recordln(log, Line(" wins", player.color, "", 0, <<>>))

----------------------------------------------------------------------------
(* The Game value the methods work on *)

(* the port layout the board is built with *)
PresetPorts == << Port(1, "NW", "any3") >>

G == [ players |-> players, state |-> state, dev_card_state |-> dev_card_state,
       cur_player |-> cur_player, last_roll |-> last_roll,
       last_player_to_roll |-> last_player_to_roll, cur_turn |-> cur_turn,
       robber_tile |-> robber_tile, pregame |-> pregame,
       board_state |-> board_state, pieces |-> pieces, tiles |-> tiles,
       ports |-> ports, catanlog |-> catanlog, timestamp |-> timestamp,
       command_stack |-> command_stack, raised |-> FALSE, notified |-> FALSE,
       board_notified |-> FALSE ]

CommitGame(g) ==
    /\ players' = g.players
    /\ state' = g.state
    /\ dev_card_state' = g.dev_card_state
    /\ cur_player' = g.cur_player
    /\ last_roll' = g.last_roll
    /\ last_player_to_roll' = g.last_player_to_roll
    /\ cur_turn' = g.cur_turn
    /\ robber_tile' = g.robber_tile
    /\ pregame' = g.pregame
    /\ board_state' = g.board_state
    /\ pieces' = g.pieces
    /\ tiles' = g.tiles
    /\ ports' = g.ports
    /\ catanlog' = g.catanlog
    /\ timestamp' = g.timestamp
    /\ command_stack' = g.command_stack
    /\ raised' = g.raised
    /\ notified' = g.notified
    /\ board_notified' = g.board_notified

(* a call that runs no notification pass of its own *)
Commit(g) == CommitGame(g) /\ UNCHANGED <<observers, fanout>>

(* Game.copy: the fields Game.restore reads back *)
copy(g) ==
    [ players |-> g.players, state |-> g.state,
      dev_card_state |-> g.dev_card_state, cur_player |-> g.cur_player,
      last_roll |-> g.last_roll, last_player_to_roll |-> g.last_player_to_roll,
      cur_turn |-> g.cur_turn, robber_tile |-> g.robber_tile,
      pregame |-> g.pregame, board_state |-> g.board_state,
      pieces |-> g.pieces, tiles |-> g.tiles, ports |-> g.ports,
      catanlog |-> g.catanlog, timestamp |-> g.timestamp ]

notify_observers(g) == [g EXCEPT !.notified = TRUE]

(* Board.notify_observers: the Game observes its board and passes it on *)
Board_notify_observers(g) == notify_observers([g EXCEPT !.board_notified = TRUE])

(* Board.restore *)
Board_restore(g, board) ==
    Board_notify_observers(
        [g EXCEPT !.tiles = board.tiles,
                  !.ports = board.ports,
                  !.board_state = board.board_state,
                  !.pieces = board.pieces])

(* mutant: the roll and the roller are not restored *)
restore_without_roll(g, game) ==
    notify_observers(
        [Board_restore(g, game)
           EXCEPT !.pregame = game.pregame,
                  !.players = game.players,
                  !.catanlog = game.catanlog,
                  !.timestamp = game.timestamp,
                  !.state = game.state,
                  !.dev_card_state = game.dev_card_state,
                  !.cur_player = game.cur_player,
                  !.cur_turn = game.cur_turn,
                  !.robber_tile = game.robber_tile])

restore(g, game) ==
    notify_observers(
        [Board_restore(g, game)
           EXCEPT !.pregame = game.pregame,
                  !.players = game.players,
                  !.catanlog = game.catanlog,
                  !.timestamp = game.timestamp,
                  !.state = game.state,
                  !.dev_card_state = game.dev_card_state,
                  !.cur_player = game.cur_player,
                  !.last_roll = game.last_roll,
                  !.last_player_to_roll = game.last_player_to_roll,
                  !.cur_turn = game.cur_turn,
                  !.robber_tile = game.robber_tile])

----------------------------------------------------------------------------
(* The states' capability queries (states.py, from the specification) *)

GameStates == { "NotInGame", "PreGamePlaceSettlement", "PreGamePlaceRoad",
                "BeginTurn", "DuringTurnAfterRoll", "MoveRobber",
                "MoveRobberUsingKnight" }

PreGameStates == { "PreGamePlaceSettlement", "PreGamePlaceRoad" }
RobberStates == { "MoveRobber", "MoveRobberUsingKnight" }

is_in_game(s) == s # "NotInGame"

(* pregame lasts while the snake of 2 x N placement pairs is not exhausted *)
is_in_pregame(g) ==
    g.state \in PreGameStates /\ g.cur_turn < 2 * Len(g.players)

has_rolled(g) == g.state = "DuringTurnAfterRoll"

can_roll(g) == g.state = "BeginTurn"

can_move_robber(g) == g.state \in RobberStates

(* dev cards are played after the roll; a card other than a knight or a    *)
(* victory point only while none has been played in the turn               *)
can_play_non_knight_dev_card(g) ==
    has_rolled(g) /\ g.dev_card_state = "NotPlayed"

Reverse(s) == [i \in 1..Len(s) |-> s[Len(s) + 1 - i]]

Snake(ps) == ps \o Reverse(ps)

IndexOf(ps, p) == CHOOSE i \in 1..Len(ps) : Player__eq__(ps[i], p)

(* the seat that plays after the current turn; fails on an empty player list *)
next_player(g) ==
    IF g.state \in PreGameStates
    THEN IF g.cur_turn + 2 <= 2 * Len(g.players)
         THEN Snake(g.players)[g.cur_turn + 2]
         ELSE g.players[1]
    ELSE g.players[(IndexOf(g.players, g.cur_player) % Len(g.players)) + 1]

next_player_fails(g) ==
    \/ g.players = <<>>
    \/ /\ g.state \notin PreGameStates
       /\ ~ \E i \in 1..Len(g.players) : Player__eq__(g.players[i], g.cur_player)

----------------------------------------------------------------------------
(* Game methods (models.py) *)

get_cur_player(g) ==
    IF g.cur_player = NoPlayer THEN Nobody
    ELSE Player(g.cur_player.seat, g.cur_player.name, g.cur_player.color)

set_cur_player(g, player) ==
    [g EXCEPT !.cur_player = Player(player.seat, player.name, player.color)]

(* mutant: the first port goes with the `none` ports *)
Board_lock_purge_first(g) ==
    Board_notify_observers(
        [g EXCEPT !.board_state = "Locked",
                  !.ports = SelectSeq(Tail(g.ports),
                                      LAMBDA port : port.type # "none")])

(* Board.lock: the `none` ports are taken out of the list *)
Board_lock(g) ==
    Board_notify_observers(
        [g EXCEPT !.board_state = "Locked",
                  !.ports = SelectSeq(g.ports, LAMBDA port : port.type # "none")])

Board_unlock(g) == [g EXCEPT !.board_state = "Modifiable"]

set_state(g, game_state) ==
    LET g1 == [g EXCEPT !.state = game_state]
        g2 == IF is_in_game(game_state) THEN Board_lock(g1) ELSE Board_unlock(g1)
    IN notify_observers(g2)

set_dev_card_state(g, dev_state) ==
    notify_observers([g EXCEPT !.dev_card_state = dev_state])

reset(g) ==
    notify_observers(
        [g EXCEPT !.players = <<>>,
                  !.state = "NotInGame",
                  !.last_roll = NoRoll,
                  !.last_player_to_roll = NoPlayer,
                  !.cur_player = NoPlayer,
                  !.cur_turn = 0])

set_players(g, ps) ==
    IF ps = <<>>
    THEN [g EXCEPT !.players = ps, !.raised = TRUE]
    ELSE notify_observers(set_cur_player([g EXCEPT !.players = ps], ps[1]))

(* the tile of the robber piece on the board, if there is one *)
find_robber(g) ==
    LET at == { k \in DOMAIN g.pieces : g.pieces[k].type = "robber" } IN
    IF at = {} THEN g
    ELSE [g EXCEPT !.robber_tile = (CHOOSE k \in at : TRUE)[2]]

(* CatanLog.log_game_start, as GameRecord.record_pregame writes the header *)
log_game_start(g, terrain, numbers) ==
    LET r == record_pregame(g.catanlog, g.timestamp, g.players, terrain, numbers,
                            g.ports)
    IN [g EXCEPT !.catanlog = r.log, !.players = r.players]

start(g, ps) ==
    LET g1 == set_players(reset(g), ps)
        g2 == IF g1.raised THEN g1
              ELSE IF g1.pregame \in {"None", "on"}
                   THEN set_state(g1, "PreGamePlaceSettlement")
              ELSE IF g1.pregame = "off"
                   THEN set_state(g1, "BeginTurn")
              ELSE g1
        terrain == Map(TerrainOf, g2.tiles)
        numbers == Map(NumberOf, g2.tiles)
    IN IF g2.raised THEN g2
       ELSE notify_observers(log_game_start(find_robber(g2), terrain, numbers))

end(g) ==
    set_state([g EXCEPT !.catanlog = record_player_wins(g.catanlog, get_cur_player(g))],
              "NotInGame")

(* a Python set of Players, kept as a sequence without __eq__-equal members *)
SetAdd(s, x) ==
    IF \E i \in 1..Len(s) : Player__eq__(s[i], x) THEN s ELSE Append(s, x)

SetRemove(s, x) == SelectSeq(s, LAMBDA y : ~ Player__eq__(y, x))

SetContains(s, x) == \E i \in 1..Len(s) : Player__eq__(s[i], x)

RECURSIVE StealableLoop(_, _, _)
StealableLoop(g, nodes, stealable) ==
    IF nodes = {} THEN stealable
    ELSE LET node == CHOOSE n \in nodes : TRUE
             found == get_pieces(g.pieces, {"settlement", "city"}, node)
         IN StealableLoop(g, nodes \ {node},
                IF found # {}
                THEN SetAdd(stealable, (CHOOSE p \in found : TRUE).owner)
                ELSE stealable)

(* mutant: the current player is not taken out *)
stealable_players_keep_current(g) ==
    IF g.robber_tile = NoTile THEN <<>>
    ELSE StealableLoop(g, nodes_touching_tile(g.robber_tile), <<>>)

RECURSIVE ListLoop(_, _, _)
ListLoop(g, nodes, stealable) ==
    IF nodes = {} THEN stealable
    ELSE LET node == CHOOSE n \in nodes : TRUE
             found == get_pieces(g.pieces, {"settlement", "city"}, node)
         IN ListLoop(g, nodes \ {node},
                IF found # {}
                THEN Append(stealable, (CHOOSE p \in found : TRUE).owner)
                ELSE stealable)

(* mutant: the owners are collected in a list, not in a set *)
stealable_players_as_list(g) ==
    IF g.robber_tile = NoTile THEN <<>>
    ELSE SetRemove(ListLoop(g, nodes_touching_tile(g.robber_tile), <<>>),
                   get_cur_player(g))

stealable_players(g) ==
    IF g.robber_tile = NoTile THEN <<>>
    ELSE LET stealable == StealableLoop(g, nodes_touching_tile(g.robber_tile), <<>>)
         IN IF SetContains(stealable, get_cur_player(g))
            THEN SetRemove(stealable, get_cur_player(g))
            ELSE stealable

can_steal(g) == g.state \in RobberStates /\ stealable_players(g) # <<>>

(* mutant: the line is written after the current player has changed *)
end_turn_logs_late(g) ==
    IF next_player_fails(g) THEN [g EXCEPT !.raised = TRUE]
    ELSE LET g1 == set_cur_player(g, next_player(g))
             g0 == [g1 EXCEPT !.catanlog = record_player_ends_turn(
                                               g1.catanlog, get_cur_player(g1))]
             g2 == [g0 EXCEPT !.cur_turn = g0.cur_turn + 1]
             g3 == set_dev_card_state(g2, "NotPlayed")
         IN IF is_in_pregame(g3)
            THEN set_state(g3, "PreGamePlaceSettlement")
            ELSE set_state(g3, "BeginTurn")

(* mutant: the turn counter is not incremented *)
end_turn_no_count(g) ==
    LET g0 == [g EXCEPT !.catanlog = record_player_ends_turn(g.catanlog,
                                                             get_cur_player(g))]
    IN
    IF next_player_fails(g0) THEN [g0 EXCEPT !.raised = TRUE]
    ELSE LET g1 == set_cur_player(g0, next_player(g0))
             g3 == set_dev_card_state(g1, "NotPlayed")
         IN IF is_in_pregame(g3)
            THEN set_state(g3, "PreGamePlaceSettlement")
            ELSE set_state(g3, "BeginTurn")

end_turn(g) ==
    LET g0 == [g EXCEPT !.catanlog = record_player_ends_turn(g.catanlog,
                                                             get_cur_player(g))]
    IN
    IF next_player_fails(g0) THEN [g0 EXCEPT !.raised = TRUE]
    ELSE LET g1 == set_cur_player(g0, next_player(g0))
             g2 == [g1 EXCEPT !.cur_turn = g1.cur_turn + 1]
             g3 == set_dev_card_state(g2, "NotPlayed")
         IN IF is_in_pregame(g3)
            THEN set_state(g3, "PreGamePlaceSettlement")
            ELSE set_state(g3, "BeginTurn")

(* mutant: the settlement is placed and the purchase is not recorded *)
buy_settlement_unrecorded(g, node) ==
    LET piece == Piece("settlement", get_cur_player(g))
        g1 == [g EXCEPT !.pieces = place_piece(g.pieces, piece, node)]
    IN IF is_in_pregame(g1)
       THEN set_state(g1, "PreGamePlaceRoad")
       ELSE set_state(g1, "DuringTurnAfterRoll")

buy_settlement(g, node) ==
    LET piece == Piece("settlement", get_cur_player(g))
        g1 == [g EXCEPT !.pieces = place_piece(g.pieces, piece, node),
                        !.catanlog = record_player_buys_settlement(
                                         g.catanlog, get_cur_player(g), node)]
    IN IF is_in_pregame(g1)
       THEN set_state(g1, "PreGamePlaceRoad")
       ELSE set_state(g1, "DuringTurnAfterRoll")

buy_city(g, node) ==
    LET piece == Piece("city", get_cur_player(g))
        g1 == [g EXCEPT !.pieces = place_piece(g.pieces, piece, node),
                        !.catanlog = record_player_buys_city(
                                         g.catanlog, get_cur_player(g), node)]
    IN set_state(g1, "DuringTurnAfterRoll")

buy_dev_card(g) ==
    notify_observers(
        [g EXCEPT !.catanlog = record_player_buys_dev_card(g.catanlog,
                                                          get_cur_player(g))])

(* Game.trade with another player: one wood for one ore *)
trade(g, getter) ==
    notify_observers(
        [g EXCEPT !.catanlog = record_player_trades_with_other(
                                   g.catanlog, get_cur_player(g), <<"1 wood">>,
                                   getter, <<"1 ore">>)])

play_knight(g) ==
    set_state(set_dev_card_state(g, "Played"), "MoveRobberUsingKnight")

play_monopoly(g, resource) ==
    set_dev_card_state(
        [g EXCEPT !.catanlog = record_player_plays_dev_monopoly(
                                   g.catanlog, get_cur_player(g), resource)],
        "Played")

play_victory_point(g) ==
    set_dev_card_state(
        [g EXCEPT !.catanlog = record_player_plays_dev_victory_point(
                                   g.catanlog, get_cur_player(g))],
        "Played")

(* BoardState.modifiable (states.py, from the specification) *)
modifiable(g) == g.board_state = "Modifiable"

(* mutant: the list is indexed by the tile id itself, one tile too far *)
cycle_hex_type_off_by_one(g, tile_id) ==
    Board_notify_observers(
        IF modifiable(g)
        THEN IF tile_id + 1 > Len(g.tiles) THEN [g EXCEPT !.raised = TRUE]
             ELSE LET tile == g.tiles[tile_id + 1]
                      next_idx == (Index(Terrain, tile.terrain) % Len(Terrain)) + 1
                  IN [g EXCEPT !.tiles[tile_id + 1].terrain = Terrain[next_idx]]
        ELSE g)

(* mutant: the number is cycled whatever the board's state *)
cycle_hex_number_unlocked(g, tile_id) ==
    Board_notify_observers(
        LET tile == g.tiles[tile_id]
            next_idx == (Index(HexNumber, tile.number) % Len(HexNumber)) + 1
        IN [g EXCEPT !.tiles[tile_id].number = HexNumber[next_idx]])

(* Python indexes the list from 0: tiles[tile_id - 1] is the tile_id-th tile *)
cycle_hex_type(g, tile_id) ==
    Board_notify_observers(
        IF modifiable(g)
        THEN LET tile == g.tiles[tile_id]
                 next_idx == (Index(Terrain, tile.terrain) % Len(Terrain)) + 1
             IN [g EXCEPT !.tiles[tile_id].terrain = Terrain[next_idx]]
        ELSE g)

cycle_hex_number(g, tile_id) ==
    Board_notify_observers(
        IF modifiable(g)
        THEN LET tile == g.tiles[tile_id]
                 next_idx == (Index(HexNumber, tile.number) % Len(HexNumber)) + 1
             IN [g EXCEPT !.tiles[tile_id].number = HexNumber[next_idx]]
        ELSE g)

cycle_port_type(g, tile_id, direction) ==
    Board_notify_observers(
        IF modifiable(g)
        THEN LET got == get_port_at(g.ports, tile_id, direction)
             IN [g EXCEPT !.ports = [got.ports EXCEPT ![got.idx].type =
                                        PortType_next_ui(got.ports[got.idx].type)]]
        ELSE g)

----------------------------------------------------------------------------
(* Commands (commands.py, from the specification): a command keeps the     *)
(* call's argument and a restore point taken when it is constructed.       *)

Command(g, type, n, p) ==
    [type |-> type, n |-> n, p |-> p, restore_point |-> copy(g)]

CmdRoll_do(g, roll) ==
    IF ~ can_roll(g) THEN g
    ELSE LET g1 == [g EXCEPT !.last_roll = roll,
                             !.last_player_to_roll = get_cur_player(g),
                             !.catanlog = record_player_roll(
                                              g.catanlog, get_cur_player(g), roll)]
         IN IF roll = 7
            THEN set_state(g1, "MoveRobber")
            ELSE set_state(g1, "DuringTurnAfterRoll")

CmdMoveRobber_do(g, tile) ==
    IF tile \notin Tiles THEN [g EXCEPT !.raised = TRUE]
    ELSE IF ~ can_move_robber(g) THEN g
    ELSE LET robber == Piece("robber", NoPlayer)
             moved == IF g.robber_tile = NoTile
                      THEN [pieces |-> place_piece(g.pieces, robber, tile),
                            raised |-> FALSE]
                      ELSE move_piece(g.pieces, robber, g.robber_tile, tile)
             g1 == [g EXCEPT !.pieces = moved.pieces, !.robber_tile = tile,
                             !.raised = moved.raised]
         IN IF g1.raised THEN g1
            ELSE IF stealable_players(g1) = <<>>
                 THEN set_state(g1, "DuringTurnAfterRoll")
                 ELSE notify_observers(g1)

CmdSteal_do(g, victim) ==
    IF can_steal(g) /\ SetContains(stealable_players(g), victim)
    THEN set_state(
             [g EXCEPT !.catanlog =
                  IF g.state = "MoveRobberUsingKnight"
                  THEN record_player_plays_dev_knight(
                           g.catanlog, get_cur_player(g), g.robber_tile, victim)
                  ELSE record_player_moves_robber_and_steals(
                           g.catanlog, get_cur_player(g), g.robber_tile, victim)],
             "DuringTurnAfterRoll")
    ELSE g

CmdBuyRoad_do(g, edge) ==
    LET g1 == [g EXCEPT !.pieces =
                   place_piece(g.pieces, Piece("road", get_cur_player(g)), edge),
                        !.catanlog = record_player_buys_road(
                                         g.catanlog, get_cur_player(g), edge)]
    IN IF g.state = "PreGamePlaceRoad" THEN end_turn(g1)
       ELSE IF has_rolled(g) THEN set_state(g1, "DuringTurnAfterRoll")
       ELSE g

Command_do(g, command) ==
    CASE command.type = "roll" -> CmdRoll_do(g, command.n)
      [] command.type = "move_robber" -> CmdMoveRobber_do(g, command.n)
      [] command.type = "steal" -> CmdSteal_do(g, command.p)
      [] command.type = "buy_road" -> CmdBuyRoad_do(g, command.n)

Command_undo(g, command) == restore(g, command.restore_point)

----------------------------------------------------------------------------
(* UndoManager (undo.py) *)

(* mutant: the command is pushed and never applied *)
UndoManager_do_push_only(g, command) ==
    [g EXCEPT !.command_stack = Append(g.command_stack, command)]

(* mutant: the command is applied first and pushed when that succeeded *)
UndoManager_do_apply_first(g, command) ==
    LET g1 == Command_do(g, command)
    IN IF g1.raised THEN g1
       ELSE [g1 EXCEPT !.command_stack = Append(g1.command_stack, command)]

UndoManager_do(g, command) ==
    Command_do([g EXCEPT !.command_stack = Append(g.command_stack, command)],
               command)

can_undo(g) == Len(g.command_stack) > 0

(* mutant: the newest command is undone and stays on the stack *)
UndoManager_undo_peek(g) ==
    IF Len(g.command_stack) < 1 THEN [g EXCEPT !.raised = TRUE]
    ELSE Command_undo(g, g.command_stack[Len(g.command_stack)])

(* mutant: the oldest command is undone, not the newest *)
UndoManager_undo_fifo(g) ==
    IF Len(g.command_stack) < 1 THEN [g EXCEPT !.raised = TRUE]
    ELSE Command_undo([g EXCEPT !.command_stack = Tail(g.command_stack)],
                      Head(g.command_stack))

UndoManager_undo(g) ==
    IF Len(g.command_stack) < 1 THEN [g EXCEPT !.raised = TRUE]
    ELSE LET command == g.command_stack[Len(g.command_stack)]
         IN Command_undo(
                [g EXCEPT !.command_stack =
                     SubSeq(g.command_stack, 1, Len(g.command_stack) - 1)],
                command)

Game_undo(g) ==
    LET g1 == UndoManager_undo(g)
    IN IF g1.raised THEN g1 ELSE notify_observers(g1)

roll(g, n) == UndoManager_do(g, Command(g, "roll", n, NoPlayer))

move_robber(g, tile) == UndoManager_do(g, Command(g, "move_robber", tile, NoPlayer))

steal(g, victim) == UndoManager_do(g, Command(g, "steal", 0, victim))

buy_road(g, edge) == UndoManager_do(g, Command(g, "buy_road", edge, NoPlayer))

----------------------------------------------------------------------------
(* Observers: the Game observes its board; views register on the Game.     *)
(* During its callback the spectator window makes the game toolbar, whose  *)
(* frames register on the Game; a joiner registers a guest on, and a       *)
(* leaver unregisters itself from, the observable that notified it.        *)

Views == {"game", "spectator", "toolbar", "joiner", "guest", "leaver"}

NoObservers == [Game |-> {}, Board |-> {"game"}]

NoFanout == [of |-> "None", start |-> {}, called |-> <<>>, raised |-> FALSE]

ViewList == << "game", "spectator", "toolbar", "joiner", "guest", "leaver" >>

(* the orders a set may be iterated in: the list turned round to start at  *)
(* any view, forwards and backwards, so that every view comes first and    *)
(* last and every two views come in both orders                            *)
Ranks ==
    { [v \in Views |-> ((Index(ViewList, v) - 1 + k) % Len(ViewList)) + 1] :
          k \in 0..(Len(ViewList) - 1) }
    \cup
    { [v \in Views |-> Len(ViewList) - ((Index(ViewList, v) - 1 + k) % Len(ViewList))] :
          k \in 0..(Len(ViewList) - 1) }

IterOrder(set, rank) ==
    [i \in 1..Cardinality(set) |->
        CHOOSE v \in set : Cardinality({ w \in set : rank[w] < rank[v] }) = i - 1]

(* what a view's notify(observable) does to the registrations *)
View_notify(view, obs, observable) ==
    CASE view = "spectator" -> [obs EXCEPT !.Game = @ \cup {"toolbar"}]
      [] view = "joiner" -> [obs EXCEPT ![observable] = @ \cup {"guest"}]
      [] view = "leaver" -> [obs EXCEPT ![observable] = @ \ {"leaver"}]
      [] OTHER -> obs

RECURSIVE NotifyEach(_, _, _)
NotifyEach(todo, obs, observable) ==
    IF todo = <<>> THEN obs
    ELSE NotifyEach(Tail(todo), View_notify(Head(todo), obs, observable), observable)

(* Game.notify_observers: the pass goes over a copy of the set *)
Game_notify_pass(obs, rank) ==
    LET todo == IterOrder(obs.Game, rank)
    IN [obs |-> NotifyEach(todo, obs, "Game"), called |-> todo, raised |-> FALSE]

(* Board.notify_observers: the pass goes over the set itself; the set      *)
(* iterator raises RuntimeError at its next step when the set's size is    *)
(* not the size it started with.  A callback changes the set by one        *)
(* member or not at all, so a pass that is not stopped sees the set it     *)
(* started with.                                                           *)
RECURSIVE Board_notify_from(_, _, _, _, _)
Board_notify_from(todo, size, obs, called, rank) ==
    IF Cardinality(obs.Board) # size
    THEN [obs |-> obs, called |-> called, raised |-> TRUE]
    ELSE IF todo = <<>>
    THEN [obs |-> obs, called |-> called, raised |-> FALSE]
    ELSE Board_notify_from(
             Tail(todo), size,
             IF Head(todo) = "game" THEN Game_notify_pass(obs, rank).obs
             ELSE View_notify(Head(todo), obs, "Board"),
             Append(called, Head(todo)), rank)

Board_notify_pass(obs, rank) ==
    Board_notify_from(IterOrder(obs.Board, rank), Cardinality(obs.Board), obs,
                      <<>>, rank)

----------------------------------------------------------------------------
(* The public calls as actions *)

Op(name, n, p) == [op |-> name, n |-> n, p |-> p]

NoPre == [set |-> FALSE]

(* placements made in turn since a start with the pregame on, else -1 *)
Placed(name, g) ==
    IF g.pregame = "off" \/ g.raised THEN -1
    ELSE IF name = "start" THEN 0
    ELSE IF /\ placed >= 0 /\ placed < 4 * Len(players)
            /\ \/ name = "buy_settlement" /\ placed % 2 = 0
               \/ name = "buy_road" /\ placed % 2 = 1
         THEN placed + 1
         ELSE -1

(* history: a call with its arguments *)
Call(name, n, p, ps, a) == [op |-> name, n |-> n, p |-> p, ps |-> ps, a |-> a]

NoTrace == [on |-> FALSE, calls |-> <<>>]

Traced(call) ==
    IF trace.on THEN [trace EXCEPT !.calls = Append(trace.calls, call)] ELSE trace

(* a call that goes straight to the Game or to its Board *)
Plain(call, g) ==
    /\ Commit(g)
    /\ last_op' = Op(call.op, call.n, call.p)
    /\ pre' = NoPre
    /\ placed' = Placed(call.op, g)
    /\ trace' = Traced(call)

(* a call that goes through the UndoManager *)
Cmd(name, n, p, g) ==
    /\ Commit(g)
    /\ last_op' = Op(name, n, p)
    /\ pre' = [set |-> TRUE, game |-> copy(G), depth |-> Len(command_stack)]
    /\ placed' = Placed(name, g)
    /\ trace' = Traced(Call(name, n, p, <<>>, ""))

Start(ps) == Plain(Call("start", 0, NoPlayer, ps, ""), start(G, ps))
End == Plain(Call("end", 0, NoPlayer, <<>>, ""), end(G))
Reset == Plain(Call("reset", 0, NoPlayer, <<>>, ""), reset(G))
EndTurn == Plain(Call("end_turn", 0, NoPlayer, <<>>, ""), end_turn(G))
BuySettlement(node) ==
    Plain(Call("buy_settlement", node, NoPlayer, <<>>, ""), buy_settlement(G, node))
BuyCity(node) == Plain(Call("buy_city", node, NoPlayer, <<>>, ""), buy_city(G, node))
BuyDevCard == Plain(Call("buy_dev_card", 0, NoPlayer, <<>>, ""), buy_dev_card(G))
PlayKnight == Plain(Call("play_knight", 0, NoPlayer, <<>>, ""), play_knight(G))
PlayMonopoly(resource) ==
    Plain(Call("play_monopoly", 0, NoPlayer, <<>>, resource), play_monopoly(G, resource))
Trade(getter) == Plain(Call("trade", 0, getter, <<>>, ""), trade(G, getter))
PlayVictoryPoint ==
    Plain(Call("play_victory_point", 0, NoPlayer, <<>>, ""), play_victory_point(G))
CycleHexType(tile_id) ==
    Plain(Call("cycle_hex_type", tile_id, NoPlayer, <<>>, ""), cycle_hex_type(G, tile_id))
CycleHexNumber(tile_id) ==
    Plain(Call("cycle_hex_number", tile_id, NoPlayer, <<>>, ""),
          cycle_hex_number(G, tile_id))
CyclePortType(tile_id, direction) ==
    Plain(Call("cycle_port_type", tile_id, NoPlayer, <<>>, direction),
          cycle_port_type(G, tile_id, direction))

(* Board.place_piece called on the board itself *)
BoardPlacePiece(piece, coord) ==
    Plain(Call("place_piece", coord, piece.owner, <<>>, piece.type),
          [G EXCEPT !.pieces = place_piece(pieces, piece, coord)])
CommandOps == {"roll", "move_robber", "steal", "buy_road"}

(* history: an undo remembers which command call it directly follows, if any *)
Follows(name) ==
    CASE name = "roll" -> 1
      [] name = "move_robber" -> 2
      [] name = "steal" -> 3
      [] name = "buy_road" -> 4
      [] OTHER -> 0

Undo ==
    /\ Commit(Game_undo(G))
    /\ last_op' = Op("undo", Follows(last_op.op), NoPlayer)
    /\ pre' = NoPre
    /\ placed' = -1
    /\ trace' = Traced(Call("undo", 0, NoPlayer, <<>>, ""))
Roll(n) == Cmd("roll", n, NoPlayer, roll(G, n))
MoveRobber(tile) == Cmd("move_robber", tile, NoPlayer, move_robber(G, tile))
Steal(victim) == Cmd("steal", 0, victim, steal(G, victim))
BuyRoad(edge) == Cmd("buy_road", edge, NoPlayer, buy_road(G, edge))

(* Game.__init__: the board comes from boardbuilder with or without a robber *)
InitGame ==
    /\ players = <<>>
    /\ state = "NotInGame"
    /\ dev_card_state = "NotPlayed"
    /\ cur_player = NoPlayer
    /\ last_roll = NoRoll
    /\ last_player_to_roll = NoPlayer
    /\ cur_turn = 0
    /\ robber_tile = NoTile
    /\ board_state = "Modifiable"
    /\ pieces \in { NoPieces, place_piece(NoPieces, Piece("robber", NoPlayer), 1) }
    /\ tiles = [i \in 1..BoardTiles |-> Tile(i, "desert", "none")]
    /\ catanlog = <<>>
    /\ command_stack = <<>>
    /\ raised = FALSE
    /\ notified = TRUE
    /\ board_notified = FALSE
    /\ last_op = Op("init", 0, NoPlayer)
    /\ pre = NoPre
    /\ placed = -1
    /\ observers = NoObservers
    /\ fanout = NoFanout

----------------------------------------------------------------------------
(* The game without pregame.  Calls that do not go through the UndoManager  *)
(* are explored while the command stack is empty; the command calls are    *)
(* made from the in-game toolbar (main.py, CatanSpectator.notify); the     *)
(* stack holds at most MaxStack commands and the game lasts at most        *)
(* MaxTurn turns.                                                          *)

Init ==
    /\ InitGame
    /\ pregame = "off"
    /\ ports = PresetPorts
    /\ timestamp = 1
    /\ trace = NoTrace

(* the calls that wrote to the record: a header counts once *)
Written(log) ==
    Cardinality({ i \in 1..Len(log) :
                    log[i].kind \notin { "CatanGameRecord v", "timestamp: ",
                                         "players: ", "name: , color: , seat: ",
                                         "terrain: ", "numbers: ", "ports: " } })

(* at most MaxRecord calls have written to the record before one that writes *)
RecordRoom == Written(catanlog) < MaxRecord

StackEmpty == command_stack = <<>>
Setup == StackEmpty /\ ~ is_in_game(state)
Playing == StackEmpty /\ is_in_game(state)
StackRoom == Len(command_stack) < MaxStack /\ is_in_game(state)
TurnRoom == cur_turn < MaxTurn

Next ==
    \/ Setup /\ RecordRoom /\ Start(Roster3)
    \/ Playing /\ RecordRoom /\ End
    \/ StackEmpty /\ Reset
    \/ Playing /\ RecordRoom /\ TurnRoom /\ EndTurn
    \/ \E node \in Nodes : Playing /\ RecordRoom /\ BuySettlement(node)
    \/ \E node \in CityNodes : Playing /\ RecordRoom /\ BuyCity(node)
    \/ Playing /\ PlayKnight
    \/ Undo
    \/ \E n \in RollValues : StackRoom /\ RecordRoom /\ can_roll(G) /\ Roll(n)
    \/ \E tile \in Tiles \cup {BadTile} :
           StackRoom /\ can_move_robber(G) /\ MoveRobber(tile)
    \/ \E victim \in Victims :
           StackRoom /\ RecordRoom /\ can_move_robber(G) /\ Steal(victim)
    \/ \E edge \in Edges :
           StackRoom /\ RecordRoom /\ TurnRoom /\ has_rolled(G) /\ BuyRoad(edge)

Spec == Init /\ [][Next]_vars

----------------------------------------------------------------------------
(* One game played round the table: the turns pass from seat to seat for   *)
(* more than a full round, with rolls and undos in between.                *)

MaxRound == 4

RoundRoom == cur_turn < MaxRound

NextSeats ==
    \/ \E ps \in Rosters : catanlog = <<>> /\ Setup /\ Start(ps)
    \/ is_in_game(state) /\ RoundRoom /\ EndTurn
    \/ \E n \in RollValues : StackRoom /\ can_roll(G) /\ Roll(n)
    \/ Undo

SpecSeats == Init /\ [][NextSeats]_vars

----------------------------------------------------------------------------
(* Notification passes: views register on the Game or on its Board and     *)
(* the observable's notify_observers is called.                            *)

Registrable == {"spectator", "joiner", "leaver"}

ObserverCall(name, obs, pass) ==
    /\ CommitGame([G EXCEPT !.raised = pass.raised])
    /\ observers' = obs
    /\ fanout' = pass
    /\ last_op' = Op(name, 0, NoPlayer)
    /\ pre' = NoPre
    /\ placed' = -1
    /\ trace' = trace

(* observable.observers.add(view) *)
Register(observable, view) ==
    ObserverCall("register", [observers EXCEPT ![observable] = @ \cup {view}],
                 NoFanout)

GameNotifyObservers(rank) ==
    LET pass == Game_notify_pass(observers, rank)
    IN ObserverCall("notify_observers", pass.obs,
                    [of |-> "Game", start |-> observers.Game,
                     called |-> pass.called, raised |-> pass.raised])

BoardNotifyObservers(rank) ==
    LET pass == Board_notify_pass(observers, rank)
    IN ObserverCall("notify_observers", pass.obs,
                    [of |-> "Board", start |-> observers.Board,
                     called |-> pass.called, raised |-> pass.raised])

NextObservers ==
    \/ \E observable \in {"Game", "Board"}, view \in Registrable :
           Register(observable, view)
    \/ \E rank \in Ranks : GameNotifyObservers(rank)
    \/ \E rank \in Ranks : BoardNotifyObservers(rank)

SpecObservers == Init /\ [][NextObservers]_vars

----------------------------------------------------------------------------
(* The pregame option: --pregame takes any string and is handed to the     *)
(* Game as it is; "None" stands for the option left out.                   *)

PregameOptions == {"None", "on", "off", "yes"}

InitOptions ==
    /\ InitGame
    /\ pregame \in PregameOptions
    /\ ports = PresetPorts
    /\ timestamp = 1
    /\ trace = NoTrace

NextOptions ==
    \/ \E ps \in Rosters : Setup /\ RecordRoom /\ Start(ps)
    \/ Playing /\ RecordRoom /\ End
    \/ \E node \in CityNodes : Playing /\ RecordRoom /\ BuySettlement(node)
    \/ \E n \in RollValues : StackRoom /\ RecordRoom /\ can_roll(G) /\ Roll(n)
    \/ Undo

SpecOptions == InitOptions /\ [][NextOptions]_vars

----------------------------------------------------------------------------
(* Games one after another: a game is ended at any point of a turn, with   *)
(* commands on the stack or a dev card played, and the next is started.    *)

NextRestart ==
    \/ ~ is_in_game(state) /\ RecordRoom /\ Start(Roster3)
    \/ is_in_game(state) /\ RecordRoom /\ End
    \/ is_in_game(state) /\ RecordRoom /\ TurnRoom /\ EndTurn
    \/ is_in_game(state) /\ PlayKnight
    \/ Undo
    \/ \E n \in RollValues : StackRoom /\ RecordRoom /\ can_roll(G) /\ Roll(n)
    \/ \E tile \in Tiles : StackRoom /\ can_move_robber(G) /\ MoveRobber(tile)

SpecRestart == Init /\ [][NextRestart]_vars

----------------------------------------------------------------------------
(* One game in which every call is made with commands on the stack or      *)
(* without: nothing waits for the stack to be empty.                       *)

InGame == is_in_game(state)

MaxCalls == 3

(* at most MaxCalls calls have written to the record before one that writes *)
CallRoom == Written(catanlog) < MaxCalls

NextStack ==
    \/ catanlog = <<>> /\ ~ InGame /\ Start(Roster3)
    \/ InGame /\ CallRoom /\ End
    \/ InGame /\ CallRoom /\ TurnRoom /\ EndTurn
    \/ \E node \in CityNodes : InGame /\ CallRoom /\ BuySettlement(node)
    \/ \E node \in CityNodes : InGame /\ CallRoom /\ BuyCity(node)
    \/ InGame /\ CallRoom /\ BuyDevCard
    \/ InGame /\ CallRoom /\ Trade(Roster3[2])
    \/ InGame /\ PlayKnight
    \/ InGame /\ CallRoom /\ PlayMonopoly("wood")
    \/ InGame /\ CallRoom /\ PlayVictoryPoint
    \/ Undo
    \/ \E n \in {2, 7} : StackRoom /\ CallRoom /\ can_roll(G) /\ Roll(n)
    \/ \E tile \in {1, BadTile} :
           StackRoom /\ can_move_robber(G) /\ MoveRobber(tile)
    \/ StackRoom /\ CallRoom /\ can_move_robber(G) /\ Steal(Roster3[2])
    \/ \E edge \in Edges :
           StackRoom /\ CallRoom /\ TurnRoom /\ has_rolled(G) /\ BuyRoad(edge)

(* the board is built with the robber on it *)
InitStack ==
    /\ InitGame
    /\ pieces # NoPieces
    /\ pregame = "off"
    /\ ports = PresetPorts
    /\ timestamp = 1
    /\ trace = NoTrace

SpecStack == InitStack /\ [][NextStack]_vars

----------------------------------------------------------------------------
(* The pregame: a game of three or four seats is started once and the      *)
(* seats place settlements and roads.                                       *)

InitPregame ==
    /\ InitGame
    /\ pregame = "on"
    /\ ports = PresetPorts
    /\ timestamp = 1
    /\ trace = NoTrace

PregameNodes == {1}

PregameRoom == Len(command_stack) < MaxPregameStack

(* the placements are followed until one is made out of turn *)
InTurn == placed >= 0

NextPregame ==
    \/ \E ps \in Rosters : state = "NotInGame" /\ Start(ps)
    \/ \E node \in PregameNodes : InTurn /\ BuySettlement(node)
    \/ \E edge \in Edges : InTurn /\ PregameRoom /\ BuyRoad(edge)

SpecPregame == InitPregame /\ [][NextPregame]_vars

----------------------------------------------------------------------------
(* The board's piece map: pieces are placed, moved and removed by calls on  *)
(* the Board itself.  The call keeps the piece and its coordinates.         *)

BoardPieces ==
    { Piece("settlement", Roster3[1]), Piece("settlement", Roster3[2]),
      Piece("city", Roster3[1]), Piece("robber", NoPlayer),
      Piece("road", Roster3[1]) }

Coords == {1, 2}

PieceCall(name, n, piece, pcs, failed) ==
    /\ Commit([G EXCEPT !.pieces = pcs, !.raised = failed])
    /\ last_op' = Op(name, n, piece)
    /\ pre' = NoPre
    /\ placed' = -1
    /\ trace' = trace

BoardPlace(piece, coord) ==
    PieceCall("place_piece", coord, piece, place_piece(pieces, piece, coord), FALSE)

BoardMove(piece, from_coord, to_coord) ==
    LET moved == move_piece(pieces, piece, from_coord, to_coord)
    IN PieceCall("move_piece", <<from_coord, to_coord>>, piece,
                 moved.pieces, moved.raised)

BoardRemove(piece, coord) ==
    LET removed == remove_piece(pieces, piece, coord)
    IN PieceCall("remove_piece", coord, piece, removed.pieces, removed.raised)

NextPieces ==
    \/ \E piece \in BoardPieces, coord \in Coords : BoardPlace(piece, coord)
    \/ \E piece \in BoardPieces, from_coord \in Coords, to_coord \in Coords :
           BoardMove(piece, from_coord, to_coord)
    \/ \E piece \in BoardPieces, coord \in Coords : BoardRemove(piece, coord)

SpecPieces == Init /\ [][NextPieces]_vars

----------------------------------------------------------------------------
(* Players are constructed with any seat number, and games are played.      *)

SeatValues == {-1, 0, 1, 4, 5}
NameValues == { <<"Yurick", "Dark Green">>, <<"josh", "blue">> }

NewPlayer(seat, name, color) ==
    LET made == Player__init__(seat, name, color)
    IN /\ Commit([G EXCEPT !.raised = made.raised])
       /\ last_op' = Op("Player", seat, made.player)
       /\ pre' = NoPre
       /\ placed' = -1
       /\ trace' = trace

NextPlayer ==
    \/ \E seat \in SeatValues, nc \in NameValues : NewPlayer(seat, nc[1], nc[2])
    \/ \E ps \in Rosters : Setup /\ RecordRoom /\ Start(ps)
    \/ Playing /\ RecordRoom /\ TurnRoom /\ EndTurn
    \/ \E node \in CityNodes : Playing /\ RecordRoom /\ BuySettlement(node)
    \/ Playing /\ RecordRoom /\ End
    \/ StackEmpty /\ Reset

SpecPlayer == Init /\ [][NextPlayer]_vars

----------------------------------------------------------------------------
(* The game on a board that is built with the robber on it.                 *)

InitRobber == Init /\ pieces # NoPieces

SpecRobber == InitRobber /\ [][Next]_vars

----------------------------------------------------------------------------
(* The ordinary turn: the build buttons are enabled once the roll is made,  *)
(* whatever the command stack holds.                                        *)

NextTurn ==
    \/ Setup /\ RecordRoom /\ Start(Roster3)
    \/ \E n \in RollValues : StackRoom /\ RecordRoom /\ can_roll(G) /\ Roll(n)
    \/ \E node \in Nodes : has_rolled(G) /\ RecordRoom /\ BuySettlement(node)
    \/ \E node \in CityNodes : has_rolled(G) /\ RecordRoom /\ BuyCity(node)
    \/ has_rolled(G) /\ RecordRoom /\ TurnRoom /\ EndTurn
    \/ \E tile \in Tiles :
           StackRoom /\ can_move_robber(G) /\ MoveRobber(tile)
    \/ \E victim \in Victims :
           StackRoom /\ RecordRoom /\ can_move_robber(G) /\ Steal(victim)
    \/ Undo

SpecTurn == Init /\ [][NextTurn]_vars

----------------------------------------------------------------------------
(* Before and between games: the calls of a game are made while no game is  *)
(* in progress.                                                             *)

Idle == StackEmpty /\ ~ is_in_game(state)

NextIdle ==
    \/ Setup /\ RecordRoom /\ Start(Roster3)
    \/ StackEmpty /\ RecordRoom /\ End
    \/ StackEmpty /\ Reset
    \/ Idle /\ RecordRoom /\ TurnRoom /\ EndTurn
    \/ \E node \in CityNodes : Idle /\ RecordRoom /\ BuySettlement(node)
    \/ \E node \in CityNodes : Idle /\ RecordRoom /\ BuyCity(node)
    \/ Idle /\ RecordRoom /\ BuyDevCard
    \/ Idle /\ PlayKnight
    \/ \E resource \in MonopolyResources :
           Idle /\ RecordRoom /\ PlayMonopoly(resource)
    \/ Idle /\ RecordRoom /\ PlayVictoryPoint

SpecIdle == Init /\ [][NextIdle]_vars

----------------------------------------------------------------------------
(* Starting games with any number of players, up to the four seats.         *)

AnyRosters == { SubSeq(get_debug_players, 1, k) : k \in 0..Len(get_debug_players) }

NextStart ==
    \/ \E ps \in AnyRosters : Setup /\ RecordRoom /\ Start(ps)
    \/ Playing /\ RecordRoom /\ End
    \/ Playing /\ RecordRoom /\ TurnRoom /\ EndTurn
    \/ \E n \in RollValues : StackRoom /\ RecordRoom /\ can_roll(G) /\ Roll(n)
    \/ Undo

SpecStart == Init /\ [][NextStart]_vars

----------------------------------------------------------------------------
(* Dev cards: games are started and ended, turns ended, knights, monopoly   *)
(* and victory-point cards played, with the robber flow a knight opens.     *)

NextDevCard ==
    \/ Setup /\ RecordRoom /\ Start(Roster3)
    \/ Playing /\ RecordRoom /\ End
    \/ Playing /\ RecordRoom /\ TurnRoom /\ EndTurn
    \/ Playing /\ PlayKnight
    \/ \E resource \in MonopolyResources :
           Playing /\ RecordRoom /\ PlayMonopoly(resource)
    \/ Playing /\ RecordRoom /\ PlayVictoryPoint
    \/ Undo
    \/ \E n \in RollValues : StackRoom /\ RecordRoom /\ can_roll(G) /\ Roll(n)
    \/ \E tile \in Tiles :
           StackRoom /\ can_move_robber(G) /\ MoveRobber(tile)
    \/ \E victim \in Victims :
           StackRoom /\ RecordRoom /\ can_move_robber(G) /\ Steal(victim)

SpecDevCard == Init /\ [][NextDevCard]_vars

----------------------------------------------------------------------------
(* The board being set up: terrain, numbers and ports are cycled before    *)
(* and during one game; the board is built with a wood port and with or    *)
(* without a port of any type at the first tile.  Clicks land on the       *)
(* terrain of the last tile, the number of the first tile and the port of  *)
(* the first tile.                                                         *)

TerrainTiles == {BoardTiles}
NumberTiles == {1}
PortAnchors == { <<1, "NW">> }

InitBoard ==
    /\ InitGame
    /\ pregame = "off"
    /\ ports \in { << Port(1, "NW", PortType[i]), Port(BoardTiles, "E", "wood") >> :
                      i \in 1..Len(PortType) }
                 \cup { << Port(BoardTiles, "E", "wood") >> }
    /\ timestamp = 1
    /\ trace = NoTrace

NextBoard ==
    \/ \E tile_id \in TerrainTiles : CycleHexType(tile_id)
    \/ \E tile_id \in NumberTiles : CycleHexNumber(tile_id)
    \/ \E anchor \in PortAnchors : CyclePortType(anchor[1], anchor[2])
    \/ catanlog = <<>> /\ Setup /\ Start(Roster3)
    \/ StackEmpty /\ Reset
    \/ \E node \in {1} :
           /\ <<"NODE", node>> \notin DOMAIN pieces
           /\ BoardPlacePiece(Piece("settlement", get_cur_player(G)), node)

SpecBoard == InitBoard /\ [][NextBoard]_vars

(* Board.lock and Board.unlock called on the board itself, between edits   *)
(* of the layout; the call keeps the board as it was before.               *)
BoardCall(name, g) ==
    /\ Commit(g)
    /\ last_op' = Op(name, 0, NoPlayer)
    /\ pre' = [set |-> TRUE, game |-> copy(G), depth |-> Len(command_stack)]
    /\ placed' = -1
    /\ trace' = trace

BoardLock == BoardCall("lock", Board_lock(G))

BoardUnlock == BoardCall("unlock", Board_unlock(G))

QueryAnchors == PortAnchors \cup { <<BoardTiles, "E">> }

(* Board.get_port_at called on the board itself; the call keeps the tile   *)
(* and the place in the list of the port it returned                       *)
BoardGetPortAt(tile_id, direction) ==
    LET got == get_port_at(ports, tile_id, direction)
    IN /\ Commit([G EXCEPT !.ports = got.ports])
       /\ last_op' = Op("get_port_at", <<tile_id, got.idx>>, NoPlayer)
       /\ pre' = NoPre
       /\ placed' = -1
       /\ trace' = trace

NextLock ==
    \/ \E anchor \in QueryAnchors : BoardGetPortAt(anchor[1], anchor[2])
    \/ \E tile_id \in TerrainTiles : CycleHexType(tile_id)
    \/ \E tile_id \in NumberTiles : CycleHexNumber(tile_id)
    \/ \E anchor \in PortAnchors : CyclePortType(anchor[1], anchor[2])
    \/ \E node \in {1} :
           /\ <<"NODE", node>> \notin DOMAIN pieces
           /\ BoardPlacePiece(Piece("settlement", Roster3[1]), node)
    \/ BoardLock
    \/ BoardUnlock

SpecLock == InitBoard /\ [][NextLock]_vars

----------------------------------------------------------------------------
(* The record of a play-through: the calls are kept, at most MaxTrace of    *)
(* them, the game is constructed at either of two instants and started     *)
(* with rosters given in any order of the seats.                           *)

Clock == {1, 2}

StartRosters ==
    { Roster3,
      << get_debug_players[3], get_debug_players[1], get_debug_players[2] >>,
      << get_debug_players[2], get_debug_players[4], get_debug_players[1],
         get_debug_players[3] >> }

InitRecord ==
    /\ InitGame
    /\ pregame = "off"
    /\ ports = PresetPorts
    /\ timestamp \in Clock
    /\ trace = [on |-> TRUE, calls |-> <<>>, fresh |-> G]

TraceRoom == Len(trace.calls) < MaxTrace

NextRecord ==
    \/ \E ps \in StartRosters : TraceRoom /\ Setup /\ Start(ps)
    \/ TraceRoom /\ Next

SpecRecord == InitRecord /\ [][NextRecord]_vars

(* one call of the play-through made again on the game g *)
Again(g, call) ==
    LET g0 == [g EXCEPT !.raised = FALSE, !.notified = FALSE,
                        !.board_notified = FALSE]
    IN CASE call.op = "start" -> start(g0, call.ps)
         [] call.op = "end" -> end(g0)
         [] call.op = "reset" -> reset(g0)
         [] call.op = "end_turn" -> end_turn(g0)
         [] call.op = "buy_settlement" -> buy_settlement(g0, call.n)
         [] call.op = "buy_city" -> buy_city(g0, call.n)
         [] call.op = "play_knight" -> play_knight(g0)
         [] call.op = "play_monopoly" -> play_monopoly(g0, call.a)
         [] call.op = "play_victory_point" -> play_victory_point(g0)
         [] call.op = "undo" -> Game_undo(g0)
         [] call.op = "roll" -> roll(g0, call.n)
         [] call.op = "move_robber" -> move_robber(g0, call.n)
         [] call.op = "steal" -> steal(g0, call.p)
         [] call.op = "buy_road" -> buy_road(g0, call.n)

RECURSIVE Replay(_, _)
Replay(g, calls) ==
    IF calls = <<>> THEN g ELSE Replay(Again(g, Head(calls)), Tail(calls))

----------------------------------------------------------------------------
(* Properties *)

(* the owners of the settlements and cities on the nodes touching a tile,  *)
(* the player `cur` left out                                               *)
OpposingOwners(pcs, tile, cur) ==
    { pcs[<<"NODE", n>>].owner :
        n \in { m \in nodes_touching_tile(tile) :
                  /\ <<"NODE", m>> \in DOMAIN pcs
                  /\ pcs[<<"NODE", m>>].type \in {"settlement", "city"} } }
    \ {cur}

Stealable(game) ==
    IF game.robber_tile = NoTile THEN {}
    ELSE OpposingOwners(game.pieces, game.robber_tile, get_cur_player(game))

Range(s) == { s[i] : i \in 1..Len(s) }

(* C1: after every public Game call the board is locked if and only if the *)
(* game state is an in-game state.                                         *)
C1_BoardLockedIffInGame == (board_state = "Locked") <=> is_in_game(state)

(* the seat that places in turn k (from 0) of a pregame of N seats *)
SnakeSeat(k, N) == IF k < N THEN k + 1 ELSE 2 * N - k

(* C2: with the pregame on and N = 3 or 4 players, while settlements and   *)
(* roads are bought in turn after start, the placing seat follows the      *)
(* snake 1..N, N..1, each seat placing one settlement then one road; the   *)
(* state is a pregame state during the first 2N pairs and is BeginTurn for *)
(* seat 1 right after the 2N-th road.                                      *)
C2_PregameSnake ==
    placed >= 0 =>
        LET N == Len(players)
            k == placed \div 2
        IN /\ N \in {3, 4}
           /\ cur_turn = k
           /\ IF placed < 4 * N
              THEN /\ state = IF placed % 2 = 0 THEN "PreGamePlaceSettlement"
                              ELSE "PreGamePlaceRoad"
                   /\ cur_player = players[SnakeSeat(k, N)]
                   /\ cur_player.seat = SnakeSeat(k, N)
              ELSE /\ state = "BeginTurn"
                   /\ cur_player.seat = 1
           /\ placed % 2 = 1 =>
                  pieces[<<"NODE", 1>>] = Piece("settlement", cur_player)
           /\ (placed >= 2 /\ placed % 2 = 0) =>
                  pieces[<<"EDGE", 1>>] =
                      Piece("road", players[SnakeSeat(k - 1, N)])

C2_Witness ==
    /\ placed = 16
    /\ Len(players) = 4
    /\ state = "BeginTurn"
    /\ cur_player.seat = 1

(* C3: a roll of n in state BeginTurn moves the state to MoveRobber when   *)
(* n = 7 and to DuringTurnAfterRoll otherwise, and records n as the last   *)
(* roll and the current player as the last roller.                         *)
C3_RollFromBeginTurn ==
    (last_op.op = "roll" /\ pre.game.state = "BeginTurn") =>
        /\ state = IF last_op.n = 7 THEN "MoveRobber" ELSE "DuringTurnAfterRoll"
        /\ last_roll = last_op.n
        /\ last_player_to_roll = get_cur_player(pre.game)
        /\ last_player_to_roll = get_cur_player(G)

C3_Witness ==
    /\ last_op.op = "roll"
    /\ last_op.n = 7
    /\ pre.game.state = "BeginTurn"
    /\ state = "MoveRobber"
    /\ last_player_to_roll = Roster3[2]

(* C4: moving the robber, in MoveRobber or MoveRobberUsingKnight, onto a   *)
(* tile that touches no settlement or city of another player leaves the    *)
(* stealable set empty and the state DuringTurnAfterRoll with no steal     *)
(* step; otherwise the state stays and a steal is enabled that leads to    *)
(* DuringTurnAfterRoll.                                                    *)
C4_MoveRobber ==
    (last_op.op = "move_robber" /\ last_op.n \in Tiles
        /\ pre.game.state \in RobberStates) =>
        LET opposing == OpposingOwners(pieces, last_op.n, get_cur_player(G))
        IN /\ ~ raised
           /\ robber_tile = last_op.n
           /\ opposing = {} =>
                  /\ stealable_players(G) = <<>>
                  /\ state = "DuringTurnAfterRoll"
                  /\ ~ can_steal(G)
           /\ opposing # {} =>
                  /\ stealable_players(G) # <<>>
                  /\ state = pre.game.state
                  /\ can_steal(G)
                  /\ \A v \in opposing :
                         steal(G, v).state = "DuringTurnAfterRoll"

C4_Witness ==
    /\ last_op.op = "move_robber"
    /\ pre.game.state = "MoveRobber"
    /\ state = "DuringTurnAfterRoll"
    /\ robber_tile = 2
    /\ <<"NODE", 2>> \in DOMAIN pieces
    /\ pieces[<<"NODE", 2>>].owner = get_cur_player(G)

(* C5: stealable_players() is exactly the set of owners of settlements and *)
(* cities on the nodes touching the robber tile, without the current       *)
(* player, each player once; it is empty when the robber tile is unset.    *)
C5_StealablePlayers ==
    LET s == stealable_players(G) IN
    /\ Range(s) = Stealable(G)
    /\ Len(s) = Cardinality(Stealable(G))
    /\ get_cur_player(G) \notin Range(s)
    /\ robber_tile = NoTile => s = <<>>

C5_Witness ==
    /\ robber_tile = 1
    /\ {<<"NODE", 1>>, <<"NODE", 2>>} \subseteq DOMAIN pieces
    /\ pieces[<<"NODE", 1>>].owner = Roster3[1]
    /\ pieces[<<"NODE", 2>>].owner = Roster3[1]
    /\ pieces[<<"NODE", 1>>].type = "city"
    /\ cur_player = Roster3[2]
    /\ stealable_players(G) = << Roster3[1] >>

(* C6: steal(victim) with a victim that is not stealable raises nothing    *)
(* and changes neither the game state, the board, the last roll nor the    *)
(* robber tile.                                                            *)
C6_StealNotStealable ==
    (last_op.op = "steal" /\ last_op.p \notin Stealable(pre.game)) =>
        /\ ~ raised
        /\ state = pre.game.state
        /\ board_state = pre.game.board_state
        /\ pieces = pre.game.pieces
        /\ last_roll = pre.game.last_roll
        /\ last_player_to_roll = pre.game.last_player_to_roll
        /\ robber_tile = pre.game.robber_tile

C6_Witness ==
    /\ last_op.op = "steal"
    /\ pre.game.state \in RobberStates
    /\ Stealable(pre.game) # {}
    /\ last_op.p \notin Stealable(pre.game)
    /\ state = pre.game.state

(* C7: a roll, a robber move or a steal directly followed by undo() leaves *)
(* the game state, the last roll, the last roller, the robber tile and the *)
(* board pieces as they were before the action.                            *)
C7_DoThenUndo ==
    [][ (last_op.op \in {"roll", "move_robber", "steal"} /\ last_op'.op = "undo") =>
            /\ state' = pre.game.state
            /\ last_roll' = pre.game.last_roll
            /\ last_player_to_roll' = pre.game.last_player_to_roll
            /\ robber_tile' = pre.game.robber_tile
            /\ pieces' = pre.game.pieces ]_vars

C7_Witness ==
    /\ last_op.op = "undo"
    /\ last_op.n = Follows("roll")
    /\ ~ raised
    /\ state = "BeginTurn"
    /\ last_roll = NoRoll
    /\ command_stack = <<>>

(* C8: undo() on an empty command stack fails, leaves the stack empty and  *)
(* the game unchanged and notifies no observer; on a non-empty stack it    *)
(* pops the most recently pushed command and runs that command's reverse   *)
(* step.                                                                   *)
C8_Undo ==
    [][ last_op'.op = "undo" =>
            IF command_stack = <<>>
            THEN /\ raised'
                 /\ ~ notified'
                 /\ UNCHANGED << command_stack, players, state, dev_card_state,
                                 cur_player, last_roll, last_player_to_roll,
                                 cur_turn, robber_tile, board_state, pieces >>
            ELSE LET top == command_stack[Len(command_stack)] IN
                 /\ ~ raised'
                 /\ notified'
                 /\ command_stack' = SubSeq(command_stack, 1, Len(command_stack) - 1)
                 /\ state' = top.restore_point.state
                 /\ last_roll' = top.restore_point.last_roll
                 /\ last_player_to_roll' = top.restore_point.last_player_to_roll
                 /\ robber_tile' = top.restore_point.robber_tile
                 /\ pieces' = top.restore_point.pieces ]_vars

C8_Witness ==
    /\ last_op.op = "undo"
    /\ ~ raised
    /\ Len(command_stack) = 1
    /\ command_stack[1].type = "roll"
    /\ state = "MoveRobber"

(* C9: a command is on the command stack only if its apply step completed  *)
(* successfully: a command whose apply step failed is not on the stack.    *)
C9_StackHoldsAppliedOnly ==
    (last_op.op \in CommandOps /\ raised) => Len(command_stack) = pre.depth

(* C10: do(command) pushes the command before it applies it: when the      *)
(* apply step fails the stack has grown by that command, and a following   *)
(* undo() runs the failed command's reverse step.                          *)
C10_PushBeforeApply ==
    (last_op.op \in CommandOps /\ raised) =>
        LET top == command_stack[Len(command_stack)]
            undone == Game_undo(G)
        IN /\ Len(command_stack) = pre.depth + 1
           /\ top.type = last_op.op
           /\ top.n = last_op.n
           /\ top.restore_point = pre.game
           /\ ~ undone.raised
           /\ Len(undone.command_stack) = pre.depth
           /\ copy(undone) = top.restore_point

C10_Witness ==
    /\ last_op.op = "move_robber"
    /\ last_op.n = BadTile
    /\ raised
    /\ Len(command_stack) = 2
    /\ pre.depth = 1

IsPrefix(a, b) == Len(a) <= Len(b) /\ SubSeq(b, 1, Len(a)) = a

C12_ReplayIdentical ==
    trace.on =>
        \A ts \in Clock :
            Replay([trace.fresh EXCEPT !.timestamp = ts], trace.calls).catanlog
                = catanlog

HeaderKinds ==
    << "CatanGameRecord v", "timestamp: ", "players: " >>

(* C13: start writes the header last in the record, in the order version,  *)
(* timestamp, player count, one line per player by ascending seat whatever *)
(* the order of the list given, terrain, numbers, ports, '...CATAN!', and  *)
(* leaves the player list in the order given; while a game is in progress  *)
(* its header is in the record.                                            *)
C13_Header ==
    /\ (trace.on /\ last_op.op = "start" /\ ~ raised) =>
          LET N == Len(players)
              given == trace.calls[Len(trace.calls)].ps
              at == Len(catanlog) - (7 + N)
              line(i) == catanlog[at + i]
          IN /\ at >= 0
             /\ players = given
             /\ line(1).kind = "CatanGameRecord v" /\ line(1).a = "0.0.1"
             /\ line(2).kind = "timestamp: " /\ line(2).n = timestamp
             /\ line(3).kind = "players: " /\ line(3).n = N
             /\ \A i \in 1..N :
                    /\ line(3 + i).kind = "name: , color: , seat: "
                    /\ \E j \in 1..N :
                           /\ given[j].name = line(3 + i).a
                           /\ given[j].color = line(3 + i).b
                           /\ given[j].seat = line(3 + i).n
                    /\ i < N => line(3 + i).n < line(4 + i).n
             /\ line(4 + N).kind = "terrain: "
             /\ line(4 + N).vals = [i \in 1..Len(tiles) |-> tiles[i].terrain]
             /\ line(5 + N).kind = "numbers: "
             /\ Len(line(5 + N).vals) = Len(tiles)
             /\ line(6 + N).kind = "ports: "
             /\ Len(line(6 + N).vals) = Len(ports)
             /\ line(7 + N).kind = "...CATAN!"
    /\ is_in_game(state) =>
          \E i \in 1..Len(catanlog) : catanlog[i].kind = "...CATAN!"

C13_Witness ==
    /\ trace.on
    /\ last_op.op = "start"
    /\ ~ raised
    /\ Len(players) = 4
    /\ players[1].seat = 2
    /\ Len(catanlog) > 11
    /\ catanlog[Len(catanlog) - 8].kind = "players: "
    /\ catanlog[Len(catanlog) - 7].n = 1
    /\ catanlog[Len(catanlog) - 4].n = 4

----------------------------------------------------------------------------
(* Cycling terrain, numbers and ports.                                      *)

CycleOps == { "cycle_hex_type", "cycle_hex_number", "cycle_port_type" }

(* the member after x in an order, the last one wrapping to the first *)
Succ(order, x) == order[(Index(order, x) % Len(order)) + 1]

(* the type of the port at an anchor; an anchor without a port counts as none *)
PortTypeAt(prts, tile_id, direction) ==
    LET at == { i \in 1..Len(prts) :
                  prts[i].tile_id = tile_id /\ prts[i].direction = direction }
    IN IF at = {} THEN "none" ELSE prts[CHOOSE i \in at : \A j \in at : i <= j].type

AllAnchors == (1..BoardTiles) \X Directions

OtherTilesSame(tile_id) ==
    /\ DOMAIN tiles' = DOMAIN tiles
    /\ \A i \in DOMAIN tiles : i # tile_id => tiles'[i] = tiles[i]

OtherPortsSame(anchor) ==
    \A other \in AllAnchors \ {anchor} :
        PortTypeAt(ports', other[1], other[2]) = PortTypeAt(ports, other[1], other[2])

(* C14: while the board is locked, cycle_hex_type, cycle_hex_number and     *)
(* cycle_port_type leave every tile's terrain and number and every port's   *)
(* type as they were.                                                       *)
C14_LockedCycleNoChange ==
    [][(board_state = "Locked" /\ last_op'.op \in CycleOps)
          => (tiles' = tiles /\ ports' = ports)]_vars

(* a cycle operation was called on a locked board that is not the initial one *)
C14_Witness ==
    /\ board_state = "Locked"
    /\ last_op.op = "cycle_hex_number"
    /\ tiles[1].number # "none"

(* one step of a cycle operation on a modifiable board, the step of the     *)
(* port cycle given by PortStep                                             *)
CycleOneStep(PortStep(_)) ==
    /\ last_op'.op = "cycle_hex_type" =>
           /\ tiles'[last_op'.n].terrain = Succ(Terrain, tiles[last_op'.n].terrain)
           /\ tiles'[last_op'.n].number = tiles[last_op'.n].number
           /\ OtherTilesSame(last_op'.n)
           /\ ports' = ports
    /\ last_op'.op = "cycle_hex_number" =>
           /\ tiles'[last_op'.n].number = Succ(HexNumber, tiles[last_op'.n].number)
           /\ tiles'[last_op'.n].terrain = tiles[last_op'.n].terrain
           /\ OtherTilesSame(last_op'.n)
           /\ ports' = ports
    /\ last_op'.op = "cycle_port_type" =>
           \A anchor \in PortAnchors :
               anchor[1] = last_op'.n =>
                   /\ PortTypeAt(ports', anchor[1], anchor[2])
                          = PortStep(PortTypeAt(ports, anchor[1], anchor[2]))
                   /\ OtherPortsSame(anchor)
                   /\ tiles' = tiles

DeclaredStep(ptype) == Succ(PortType, ptype)

(* C15 as stated: on a modifiable board each cycle operation advances the   *)
(* targeted value one step through its enum's declared order, the last      *)
(* value wrapping to the first, and changes no other tile or port.          *)
C15_CycleOneStep ==
    [][board_state = "Modifiable" => CycleOneStep(DeclaredStep)]_vars

UiOrder == << "any3", "wood", "brick", "wheat", "sheep", "ore", "none" >>

UiStep(ptype) == IF ptype = "any4" THEN "any3" ELSE Succ(UiOrder, ptype)

(* C15 amended: terrain and number advance one step through the declared    *)
(* order with wrap; a port advances one step through the declared order     *)
(* with any4 left out, none wrapping to any3 and any4 going to any3; no     *)
(* other tile or port changes.                                              *)
C15_CycleOneStepUi ==
    [][board_state = "Modifiable" => CycleOneStep(UiStep)]_vars

(* the terrain of the last tile wrapped round to wood, the number of the    *)
(* first tile is at its last value, and the port at the anchor was made by  *)
(* the click and stepped from none                                          *)
C15_Witness ==
    /\ board_state = "Modifiable"
    /\ last_op.op = "cycle_port_type"
    /\ tiles[BoardTiles].terrain = "wood"
    /\ tiles[1].number = "twelve"
    /\ PortTypeAt(ports, 1, "NW") = "any3"
    /\ Len(ports) = 2
    /\ ports[1].type = "wood"

(* the type of a port after k cycle steps *)
RECURSIVE CycledTimes(_, _)
CycledTimes(ptype, k) ==
    IF k = 0 THEN ptype ELSE PortType_next_ui(CycledTimes(ptype, k - 1))

UiTypes == { PortType[i] : i \in 1..Len(PortType) } \ {"any4"}

(* C16: a cycle step never leaves the port with type any4, whatever type    *)
(* the port had, and cycling on from any type visits every type other than  *)
(* any4 once before a type comes again.                                     *)
C16_NeverAny4 ==
    LET ptype == PortTypeAt(ports, 1, "NW")
        round == Cardinality(UiTypes)
    IN /\ (last_op.op = "cycle_port_type" /\ board_state = "Modifiable")
              => ptype # "any4"
       /\ \A k \in 1..round : CycledTimes(ptype, k) # "any4"
       /\ { CycledTimes(ptype, k) : k \in 1..round } = UiTypes
       /\ CycledTimes(ptype, round + 1) = CycledTimes(ptype, 1)

(* the port given at the first tile was cycled up to the last type *)
C16_Witness ==
    /\ board_state = "Modifiable"
    /\ last_op.op = "cycle_port_type"
    /\ Len(ports) = 2
    /\ ports[1] = Port(1, "NW", "none")

(* the calls that run a mutating Board operation: the cycle operations,     *)
(* Board.place_piece, and Game.start, whose set_state locks the board       *)
BoardMutators == CycleOps \cup { "place_piece", "start" }

(* C17: when a mutating Board operation returns, the Board's observers      *)
(* have been notified.                                                      *)
C17_BoardNotifies ==
    last_op.op \in BoardMutators => board_notified

----------------------------------------------------------------------------
(* Dev cards.                                                               *)

(* the game's own fields and the record; the call's bookkeeping left out *)
GameFields ==
    << players, state, dev_card_state, cur_player, last_roll,
       last_player_to_roll, cur_turn, robber_tile, board_state, pieces,
       tiles, ports, catanlog >>

(* C18: play_knight sets DevCardState to Played and GameState to            *)
(* MoveRobberUsingKnight; a play_monopoly that follows in the same turn is  *)
(* rejected: can_play_non_knight_dev_card is false, no record line is       *)
(* appended and no state changes.                                           *)
C18_KnightThenMonopolyRejected ==
    [][/\ (last_op'.op = "play_knight")
              => (dev_card_state' = "Played" /\ state' = "MoveRobberUsingKnight")
       /\ (/\ state = "MoveRobberUsingKnight"
           /\ dev_card_state = "Played"
           /\ last_op'.op = "play_monopoly")
              => (/\ ~ can_play_non_knight_dev_card(G)
                  /\ catanlog' = catanlog
                  /\ GameFields' = GameFields)]_vars

(* C19: play_victory_point leaves a DevCardState of NotPlayed as it is.     *)
C19_VictoryPointKeepsNotPlayed ==
    [][(last_op'.op = "play_victory_point" /\ dev_card_state = "NotPlayed")
          => dev_card_state' = "NotPlayed"]_vars

(* C20: a DevCardState of Played stays Played under every call but          *)
(* end_turn, end_turn sets it to NotPlayed, and every turn begins, after    *)
(* start or end_turn, with NotPlayed.                                       *)
C20_PlayedUntilEndTurn ==
    /\ [][/\ (dev_card_state = "Played" /\ last_op'.op # "end_turn")
                 => (dev_card_state' = "Played")
          /\ (last_op'.op = "end_turn" /\ ~ raised')
                 => (dev_card_state' = "NotPlayed")]_vars
    /\ []((/\ state = "BeginTurn"
            /\ last_op.op \in {"start", "end_turn"}
            /\ ~ raised)
              => (dev_card_state = "NotPlayed"))

----------------------------------------------------------------------------
(* Building.                                                                *)

(* C21: buy_settlement(node) in DuringTurnAfterRoll appends exactly one     *)
(* '<color> buys settlement, builds at <node>' line naming the current      *)
(* player, puts a settlement of the current player at node, and leaves the  *)
(* state DuringTurnAfterRoll, the current player and the turn counter as    *)
(* they were.                                                               *)
C21_BuySettlementAfterRoll ==
    [][(state = "DuringTurnAfterRoll" /\ last_op'.op = "buy_settlement")
          => (/\ catanlog' = Append(catanlog,
                     Line(" buys settlement, builds at ", cur_player.color, "",
                          last_op'.n, <<>>))
              /\ <<"NODE", last_op'.n>> \in DOMAIN pieces'
              /\ pieces'[<<"NODE", last_op'.n>>] = Piece("settlement", cur_player)
              /\ state' = "DuringTurnAfterRoll"
              /\ cur_player' = cur_player
              /\ cur_turn' = cur_turn)]_vars

(* the second player bought a settlement after the roll of the second turn *)
C21_Witness ==
    /\ last_op.op = "buy_settlement"
    /\ state = "DuringTurnAfterRoll"
    /\ last_roll # NoRoll
    /\ cur_turn = 1
    /\ command_stack # <<>>
    /\ catanlog[Len(catanlog)].kind = " buys settlement, builds at "
    /\ catanlog[Len(catanlog)].a = Roster3[2].color

(* C22: DuringTurnAfterRoll is entered only once the current player has     *)
(* rolled in the turn, pregame is left only into BeginTurn (or by ending    *)
(* or restarting the game), and buy_settlement or buy_city called in        *)
(* BeginTurn, MoveRobber or a pregame state never gives DuringTurnAfterRoll.*)
C22_PhaseOrder ==
    /\ []((state = "DuringTurnAfterRoll")
              => (last_roll # NoRoll /\ last_player_to_roll = cur_player))
    /\ [][/\ (/\ state \in PreGameStates
               /\ state' \notin PreGameStates
               /\ last_op'.op \notin {"start", "end", "reset"})
                 => (state' = "BeginTurn")
          /\ (/\ state \in {"BeginTurn", "MoveRobber"} \cup PreGameStates
               /\ last_op'.op \in {"buy_settlement", "buy_city"})
                 => (state' # "DuringTurnAfterRoll")]_vars

----------------------------------------------------------------------------
(* Games and their players.                                                 *)

(* C23: while the state is NotInGame, end, end_turn, buy_settlement,        *)
(* buy_city, buy_dev_card and the play_* calls leave the state NotInGame    *)
(* and append no line to the record.                                        *)
C23_NotInGameOnlyStart ==
    [][(/\ state = "NotInGame"
        /\ last_op'.op \in {"end", "end_turn", "buy_settlement", "buy_city",
                            "buy_dev_card", "play_knight", "play_monopoly",
                            "play_victory_point"})
          => (state' = "NotInGame" /\ catanlog' = catanlog)]_vars

(* C24: in every in-game state the player list has 3 or 4 players.          *)
C24_ThreeOrFourPlayers ==
    is_in_game(state) => Len(players) \in {3, 4}

----------------------------------------------------------------------------
(* Pieces.                                                                  *)

RobberAt == { k \in DOMAIN pieces : pieces[k].type = "robber" }

(* C25: in every in-game state exactly one robber piece is on the board    *)
(* and robber_tile is set and is the tile of that piece, also after         *)
(* move_robber and after the undo of a move_robber.                         *)
C25_OneRobber ==
    is_in_game(state) =>
        /\ Cardinality(RobberAt) = 1
        /\ robber_tile # NoTile
        /\ RobberAt = { <<"TILE", robber_tile>> }

(* the key of the piece map for a piece at a coordinate *)
PieceKey(piece, coord) == << _piece_type_to_hex_type(piece.type), coord >>

(* C26: place_piece at a coordinate that already holds a piece of the same  *)
(* class leaves that piece on the board at the coordinate.                  *)
C26_PlaceKeepsFirst ==
    [][(last_op'.op = "place_piece")
          => \A k \in DOMAIN pieces :
                 k \in DOMAIN pieces' /\ pieces'[k] = pieces[k]]_vars

(* C27: move_piece with no piece of the piece's class at the from           *)
(* coordinate leaves the piece map as it was and raises nothing.            *)
C27_MoveAbsentNoOp ==
    [][(/\ last_op'.op = "move_piece"
        /\ PieceKey(last_op'.p, last_op'.n[1]) \notin DOMAIN pieces)
          => (pieces' = pieces /\ ~ raised')]_vars

(* a robber was to be moved from a tile it is not on to a free tile, with   *)
(* a settlement on the board                                                *)
C27_Witness ==
    /\ last_op.op = "move_piece"
    /\ last_op.p.type = "robber"
    /\ last_op.n = <<2, 1>>
    /\ DOMAIN pieces = { <<"NODE", 2>> }
    /\ ~ raised

(* C28: remove_piece with no piece of the piece's class at the coordinate   *)
(* raises nothing and leaves the piece map as it was.                       *)
C28_RemoveAbsentNoRaise ==
    [][(/\ last_op'.op = "remove_piece"
        /\ PieceKey(last_op'.p, last_op'.n) \notin DOMAIN pieces)
          => (pieces' = pieces /\ ~ raised')]_vars

----------------------------------------------------------------------------
(* Players and reset.                                                       *)

(* the Players that exist: those of the list, the current player as         *)
(* get_cur_player gives it, the last roller, the owners of pieces and the   *)
(* Player just constructed                                                  *)
ExistingPlayers ==
    { players[i] : i \in 1..Len(players) }
        \cup { get_cur_player(G) }
        \cup ({ last_player_to_roll } \ { NoPlayer })
        \cup ({ pieces[k].owner : k \in DOMAIN pieces } \ { NoPlayer })
        \cup (IF last_op.op = "Player" /\ ~ raised THEN { last_op.p } ELSE {})

(* C29: constructing a Player fails exactly when the seat is outside 1..4,  *)
(* and every Player that exists, the one get_cur_player returns before a    *)
(* player is set included, has a seat in 1..4.                              *)
C29_SeatInRange ==
    /\ (last_op.op = "Player") =>
           /\ raised <=> (last_op.n \notin 1..4)
           /\ ~ raised => (last_op.p.seat = last_op.n)
    /\ \A p \in ExistingPlayers : p.seat \in 1..4

(* a Player was made with seat 4 while a game is on *)
C29_Witness ==
    /\ last_op.op = "Player"
    /\ last_op.n = 4
    /\ last_op.p = Player(4, "yurick", "darkgreen")
    /\ is_in_game(state)
    /\ ~ raised

(* a Player with seat 5 was refused before any player is set *)
C29_WitnessRefused ==
    /\ last_op.op = "Player"
    /\ last_op.n = 5
    /\ raised
    /\ cur_player = NoPlayer

(* C30: after reset() the player list is empty, the current player, the    *)
(* last roll and the last roller are unset, the turn counter is 0, the      *)
(* state is NotInGame and the board holds no piece of a player (the robber  *)
(* of a fresh board apart).                                                 *)
C30_ResetClears ==
    (last_op.op = "reset") =>
        /\ players = <<>>
        /\ cur_player = NoPlayer
        /\ cur_turn = 0
        /\ last_roll = NoRoll
        /\ last_player_to_roll = NoPlayer
        /\ state = "NotInGame"
        /\ { k \in DOMAIN pieces : pieces[k].type # "robber" } = {}
(* the player of the next higher seat, the lowest seat after the highest *)
SeatAfter(ps, p) ==
    LET later == { i \in 1..Len(ps) : ps[i].seat > p.seat }
        from == IF later # {} THEN later ELSE 1..Len(ps)
    IN ps[CHOOSE i \in from : \A j \in from : ps[i].seat <= ps[j].seat]

OrdinaryTurn == is_in_game(state) /\ state \notin PreGameStates

(* C31: end_turn in an ordinary turn appends exactly one "<color> ends      *)
(* turn" line naming the player whose turn ends, makes the player of the    *)
(* next seat (the first seat after the last) current and moves the state    *)
(* to BeginTurn.                                                            *)
C31_EndTurnPassesSeat ==
    [][ (last_op'.op = "end_turn" /\ OrdinaryTurn)
        => /\ catanlog' = Append(catanlog,
                                 Line(" ends turn", cur_player.color, "", 0, <<>>))
           /\ cur_player' = SeatAfter(players, cur_player)
           /\ state' = "BeginTurn" ]_vars

C31_Witness ==
    /\ last_op.op = "end_turn"
    /\ cur_turn >= Len(players)
    /\ Len(players) = 3
    /\ cur_player = players[1]
    /\ state = "BeginTurn"
    /\ catanlog[Len(catanlog)] = Line(" ends turn", players[3].color, "", 0, <<>>)


NonePorts(prts) == { i \in 1..Len(prts) : prts[i].type = "none" }

(* C33: right after lock() no port has the type none, every port of        *)
(* another type is still there with its type, and lock() and unlock()       *)
(* change no tile's terrain or number and no piece.                         *)
C33_LockPurgesNonePorts ==
    [][ /\ ((last_op'.op = "lock")
               => /\ NonePorts(ports') = {}
                  /\ \A i \in 1..Len(ports) :
                         (ports[i].type # "none")
                             => (\E j \in 1..Len(ports') : ports'[j] = ports[i])
                  /\ \A j \in 1..Len(ports') :
                         \E i \in 1..Len(ports) : ports[i] = ports'[j])
        /\ ((last_op'.op \in {"lock", "unlock"})
               => (tiles' = tiles /\ pieces' = pieces)) ]_vars

C33_Witness ==
    /\ last_op.op = "lock"
    /\ pre.set
    /\ NonePorts(pre.game.ports) # {}
    /\ Len(ports) = Len(pre.game.ports) - 1
    /\ Len(ports) >= 1
    /\ \E i \in 1..Len(tiles) : tiles[i].terrain # "desert"
    /\ \E i \in 1..Len(tiles) : tiles[i].number # "none"
    /\ pieces # NoPieces

PortsAt(prts, anchor) ==
    { i \in 1..Len(prts) : prts[i].tile_id = anchor[1] /\ prts[i].direction = anchor[2] }

UniqueAnchors(prts) ==
    \A i, j \in 1..Len(prts) :
        (prts[i].tile_id = prts[j].tile_id /\ prts[i].direction = prts[j].direction)
            => (i = j)

(* C34: get_port_at(tile, direction) adds exactly one port of type none at  *)
(* an anchor that has no port and returns it, returns the port that is      *)
(* there and adds nothing at an anchor that has one, and the ports never    *)
(* hold two ports with the same (tile, direction) anchor.                   *)
C34_GetOrCreatePort ==
    /\ UniqueAnchors(ports)
    /\ [][ /\ UniqueAnchors(ports')
           /\ \A anchor \in QueryAnchors :
                  (last_op'.op = "get_port_at" /\ last_op'.n[1] = anchor[1])
                      => IF PortsAt(ports, anchor) = {}
                         THEN /\ ports' = Append(ports,
                                                 Port(anchor[1], anchor[2], "none"))
                              /\ last_op'.n[2] = Len(ports')
                         ELSE /\ ports' = ports
                              /\ PortsAt(ports, anchor) = {last_op'.n[2]} ]_vars

C34_Witness ==
    /\ last_op.op = "get_port_at"
    /\ last_op.n[2] = Len(ports)
    /\ Len(ports) = 2
    /\ ports[Len(ports)] = Port(1, "NW", "none")
    /\ board_state = "Modifiable"
    /\ \E i \in 1..Len(tiles) : tiles[i].terrain # "desert"

Times(seq, v) == Cardinality({ i \in 1..Len(seq) : seq[i] = v })

(* C35: a notification pass of the Game or of the Board calls every        *)
(* observer registered when the pass starts exactly once and no other, and *)
(* is not aborted when an observer registers or unregisters an observer    *)
(* during its callback.                                                    *)
C35_PassOverSnapshot ==
    (fanout.of # "None")
        => /\ ~ fanout.raised
           /\ \A v \in Views :
                  Times(fanout.called, v) = IF v \in fanout.start THEN 1 ELSE 0

(* the classes of the piece map: roads on edges, settlements and cities on  *)
(* nodes, the robber on tiles                                               *)
ClassOf(piece) ==
    CASE piece.type = "road" -> "EDGE"
      [] piece.type = "settlement" -> "NODE"
      [] piece.type = "city" -> "NODE"
      [] piece.type = "robber" -> "TILE"

(* C36: place_piece(piece, coord) changes only the entry of the piece map   *)
(* keyed by (class of piece, coord): an entry of another class at the same  *)
(* coordinate and every entry at another coordinate are as they were.       *)
C36_PlaceOnlyOwnEntry ==
    [][ (last_op'.op = "place_piece")
        => /\ << ClassOf(last_op'.p), last_op'.n >> \in DOMAIN pieces'
           /\ pieces'[<< ClassOf(last_op'.p), last_op'.n >>] = last_op'.p
           /\ \A k \in (DOMAIN pieces \cup DOMAIN pieces')
                        \ { << ClassOf(last_op'.p), last_op'.n >> } :
                  /\ k \in DOMAIN pieces
                  /\ k \in DOMAIN pieces'
                  /\ pieces'[k] = pieces[k] ]_vars

(* the robber was placed on tile 1, with a settlement on node 1, a road on  *)
(* edge 1 and a city on node 2                                              *)
C36_Witness ==
    /\ last_op.op = "place_piece"
    /\ last_op.p.type = "robber"
    /\ last_op.n = 1
    /\ DOMAIN pieces = { <<"TILE", 1>>, <<"NODE", 1>>, <<"EDGE", 1>>, <<"NODE", 2>> }
    /\ pieces[<<"NODE", 1>>].type = "settlement"
    /\ pieces[<<"NODE", 2>>].type = "city"

OfClass(pcs, class) == { k \in DOMAIN pcs : k[1] = class }

(* C39: after move_piece(piece, from, to) with a piece of the class at      *)
(* from, the piece is at to, and the number of pieces of the class is        *)
(* unchanged when to was empty or is from itself: a piece moved onto the     *)
(* coordinate it is on stays on the board.                                   *)
C39_MoveKeepsPiece ==
    [][ (/\ last_op'.op = "move_piece"
         /\ PieceKey(last_op'.p, last_op'.n[1]) \in DOMAIN pieces)
        => /\ PieceKey(last_op'.p, last_op'.n[2]) \in DOMAIN pieces'
           /\ ((\/ PieceKey(last_op'.p, last_op'.n[2]) \notin DOMAIN pieces
                 \/ last_op'.n[2] = last_op'.n[1])
                  => (Cardinality(OfClass(pieces', ClassOf(last_op'.p)))
                          = Cardinality(OfClass(pieces, ClassOf(last_op'.p))))) ]_vars

(* C37: after start(players) has returned the game is in an in-game state  *)
(* whatever the pregame option is: PreGamePlaceSettlement when it is on or  *)
(* left out, BeginTurn when it is off, never NotInGame.                     *)
C37_StartEntersGame ==
    [][ (last_op'.op = "start" /\ ~ raised')
        => /\ is_in_game(state')
           /\ ((pregame \in {"None", "on"}) => (state' = "PreGamePlaceSettlement"))
           /\ ((pregame = "off") => (state' = "BeginTurn")) ]_vars

(* C38: right after start(players), whatever happened in the game before,  *)
(* the command stack is empty (can_undo is false), DevCardState is          *)
(* NotPlayed, the last roll is unset and the turn counter is 0.             *)
C38_StartInheritsNothing ==
    [][ (last_op'.op = "start" /\ ~ raised')
        => /\ command_stack' = <<>>
           /\ dev_card_state' = "NotPlayed"
           /\ last_roll' = NoRoll
           /\ cur_turn' = 0 ]_vars

(* C40: the depth of the command stack goes up by 1 with each roll,        *)
(* move_robber, steal and buy_road and down by 1 with an undo that          *)
(* succeeds; every other call leaves the stack as it is; can_undo() is      *)
(* true exactly when the depth is greater than 0.                           *)
C40_StackDepth ==
    [][ /\ ((last_op'.op \in CommandOps)
               => (Len(command_stack') = Len(command_stack) + 1))
        /\ ((last_op'.op = "undo")
               => (Len(command_stack')
                      = IF raised' THEN Len(command_stack)
                        ELSE Len(command_stack) - 1))
        /\ ((last_op'.op \notin (CommandOps \cup {"undo"}))
               => (command_stack' = command_stack))
        /\ (can_undo(G)' = (Len(command_stack') > 0)) ]_vars

(* an undo took the newer of two commands off the stack, the older one a   *)
(* roll                                                                    *)
C40_Witness ==
    /\ last_op.op = "undo"
    /\ ~ raised
    /\ Len(command_stack) = 1
    /\ \E i \in 1..Len(catanlog) : catanlog[i].kind = " rolls "

====
